---- MODULE Spec2Model ----
(***************************************************************************)
(* A model of obsidian-postprocessor: the V2 engine (main.run_processing   *)
(* with obsidian_processor.state.StateManager and ProcessorRegistry) and   *)
(* the V1 engine (src.processor.ObsidianProcessor with                     *)
(* src.state_manager.StatelessStateManager).                               *)
(***************************************************************************)
EXTENDS Integers, Sequences, FiniteSets, TLC

VARIABLES
    engine,       \* "V1" | "V2": which generation of the engine runs
    run,          \* number of the current run of the engine (1..MaxRuns)
    pc,           \* position of the engine inside the run
    budget,       \* retry budget: retry_attempts (V2), max_retries (V1)
    ni,           \* index of the current note in the scan order
    pi,           \* index of the current processor (V2) / recording (V1)
    attempt,      \* loop variable `attempt` of the retry loop
    inv,          \* invocations of the operation made by the current call
    res,          \* return value of the current call: "none" | "ok" | "fail"
    task,         \* task id the remote service returned to the current attempt
    fm,           \* V2: processor_state of every note's frontmatter
    legacyFields, \* V2: notes whose frontmatter holds legacy failure fields
    nOk,          \* successful results of this run (newly_processed)
    nFail,        \* failed results of this run (failed_processing)
    unrecorded,   \* keys whose operation succeeded but whose state write failed
    finished,     \* keys the engine has finished with in this run
    clean,        \* no failure, state-write error or kill has happened so far
    lists,        \* V1: processed_recordings and broken_recordings of every note
    cache,        \* V1: the frontmatter the connected vault object holds
    todo,         \* V1: the unprocessed recordings of the current note
    markCalls,    \* V1: calls of mark_recording_processed by the current call
    brokenCalls,  \* V1: calls of mark_recording_broken by the current call
    eligible,     \* attachments that were eligible when the run started
    fs,           \* the file system: path -> [exists, data]
    wpc,          \* position inside _write_file_atomic
    content,      \* argument `content` of _write_file_atomic
    before,       \* content of the note when _write_file_atomic was called
    renamed,      \* temp_path.replace(file_path) of this call has happened
    writes,       \* calls of _write_file_atomic made so far
    tpc,          \* position of every task of the event loop
    top,          \* operation and note of every task
    running,      \* the task the event loop is running (0: none)
    lock,         \* StateManager._lock: the task that holds it (0: free)
    ver,          \* number of writes every note has received
    seen,         \* per task: ver of its note when it read it (-1: none)
    ops,          \* operations started so far
    marked,       \* <<field, note, filename, time>> of the mark calls that
                  \* returned True, the latest per filename
    repeated,     \* a mark call returned True a second time for one filename
    dry_run,      \* StateManager.dry_run
    op,           \* the StateManager method a client called last: <<name, note, processor>>
    reset_done,   \* the <<note, processor>> whose completed record a reset replaced
    ppc,          \* position inside _poll_task_completion
    timeout,      \* self.timeout, in tenths of a second
    elapsed,      \* time.time() - start_time, in tenths of a second
    poll_interval, \* poll_interval, in tenths of a second
    polls,        \* status requests made so far (counted up to MaxPolls)
    observed,     \* what the latest status request returned
    why,          \* the exception _poll_task_completion raised
    processors_config, \* config["processors"]: name -> [enabled, type, field]
    rpc,          \* position of run_processing around the registration
    ci,           \* index of the configuration item being registered
    processors,   \* ProcessorRegistry.processors: the registered names, in order
    notes_read,   \* notes the scan has parsed
    notes_modified, \* notes a processor has been run on
    files,        \* the places of the vault that hold a file of the attachment's name
    variants,     \* the places that hold a file whose name differs in case only
    obsidian_attachment_folder, \* VaultScanner.obsidian_attachment_folder is set
    audio_suffix, \* the suffix of the attachment is in audio_extensions
    xpc,          \* position inside _resolve_attachment_path
    resolved,     \* its return value: a place, or "None"
    voice_at,     \* the places of the vault that hold a file named voice_filename
    configured_attachment_folder, \* _get_attachment_folder_path() returned a folder
    note_dir,     \* the note is in a subdirectory of the vault
    vault_hit,    \* what _find_voice_file_in_vault returned: a place, or "None"
    gpc,          \* position of the call of get_voice_file_path
    voice_path,   \* its return value: a place
    detector,     \* "V1": VoiceMemoDetector, "V2": VaultScanner
    notes_with_memos, \* note -> for every audio file it embeds, the places that hold the file
    apc,          \* position of the detection
    verified_notes, \* V1: what verify_voice_files_exist returned: note -> kept embeds
    yielded,      \* V2: the NoteInfo objects scan_vault has yielded, in order
    scanned,      \* V2: notes _scan_notes has been through
    invoked,      \* <<note, embed>> of the invocations of the operation
    rel_filepath, \* note -> the directories of its path below the vault root
    exclude_patterns, \* V2: VaultScanner.exclude_patterns
    scan_engine,  \* "V1": get_notes_with_voice_memos, "V2": scan_vault
    scan_i,       \* notes the scan has been through
    notes_found,  \* the notes the scan has returned for processing
    document,     \* the text of a note, as its lines
    parse_engine, \* "V1": _parse_frontmatter, "V2": _extract_frontmatter
    ypc,          \* position of the parsing
    parsed,       \* what the parser returned, or that it raised
    note_processed, \* the run has processed the attachment of the note
    frontmatter,  \* argument of _serialize_frontmatter: the entries of the mapping
    body,         \* argument of _serialize_frontmatter, as its lines
    state_writes, \* state writes the note has received
    note_fm,      \* the frontmatter of the note file: the legacy lists, the voice-memos map, another key
    vault_fm,     \* the same as the connected vault object holds it
    schema_call,  \* the latest call: its name, its recording, its return value
    schema_calls, \* calls made so far
    writer        \* the function that writes the note

evars == <<engine, run, pc, budget, ni, pi, attempt, inv, res, task, fm,
           legacyFields, nOk, nFail, unrecorded, finished, clean, lists, cache, todo,
           markCalls, brokenCalls, eligible>>
\* variables of the model of _write_file_atomic and of the event loop
wvars == <<fs, wpc, content, before, renamed, writes>>
cvars == <<tpc, top, running, lock, ver, seen, ops>>
\* variables of the model of the StatelessStateManager called on its own
mvars == <<marked, repeated>>
\* variables of the model of the StateManager called on its own
svars == <<dry_run, op, reset_done>>

\* variables of the model of _poll_task_completion
pvars == <<ppc, timeout, elapsed, poll_interval, polls, observed, why>>

\* variables of the model of the registration of the processors
rvars == <<processors_config, rpc, ci, processors, notes_read,
           notes_modified>>

\* variables of the model of _resolve_attachment_path
xvars == <<files, variants, obsidian_attachment_folder, audio_suffix, xpc,
           resolved>>

\* variables of the model of VoiceMemoDetector.get_voice_file_path
gvars == <<voice_at, configured_attachment_folder, note_dir, vault_hit,
           gpc, voice_path>>

\* variables of the model of the exclusion of missing attachments
avars == <<detector, notes_with_memos, apc, verified_notes, yielded, scanned, invoked>>

\* variables of the model of the exclusion of the template notes
tvars == <<rel_filepath, exclude_patterns, scan_engine, scan_i, notes_found>>

\* variables of the model of the parsing and writing of the frontmatter
yvars == <<document, parse_engine, ypc, parsed, note_processed, frontmatter, body, state_writes>>

\* variables of the model of the two schemas of the V1 frontmatter
nvars == <<note_fm, vault_fm, schema_call, schema_calls>>

\* the writer of the model of the writes to a note
uvars == <<writer>>

vars == <<evars, wvars, cvars, mvars, svars, pvars, rvars, xvars, gvars, avars, tvars, yvars, nvars, uvars>>

v1vars == <<lists, cache, todo, markCalls, brokenCalls>>
v2vars == <<fm, legacyFields>>
\* what an action of the V2 engine, of the V1 engine, leaves alone
offEngine == <<wvars, cvars, mvars, svars, pvars, rvars, xvars, gvars, avars, tvars, yvars, nvars, uvars>>
offWrite == <<evars, cvars, mvars, svars, pvars, rvars, xvars, gvars, avars, tvars, yvars, nvars, uvars>>
offConc == <<evars, wvars, mvars, svars, pvars, rvars, xvars, gvars, avars, tvars, yvars, nvars, uvars>>
offPoll == <<evars, wvars, cvars, mvars, svars, rvars, xvars, gvars, avars, tvars, yvars, nvars, uvars>>
offRegistration == <<evars, wvars, cvars, mvars, svars, pvars, xvars, gvars, avars, tvars, yvars, nvars, uvars>>
offResolve == <<evars, wvars, cvars, mvars, svars, pvars, rvars, gvars, avars, tvars, yvars, nvars, uvars>>
offVoicePath == <<evars, wvars, cvars, mvars, svars, pvars, rvars, xvars, avars, tvars, yvars, nvars, uvars>>
offVerify == <<evars, wvars, cvars, mvars, svars, pvars, rvars, xvars, gvars, tvars, yvars, nvars, uvars>>
offTemplates == <<evars, wvars, cvars, mvars, svars, pvars, rvars, xvars, gvars, avars, yvars, nvars, uvars>>
offFrontmatter == <<evars, wvars, cvars, mvars, svars, pvars, rvars, xvars, gvars, avars, tvars, nvars, uvars>>
offSchemas == <<evars, wvars, cvars, mvars, svars, pvars, rvars, xvars, gvars, avars, tvars, yvars, uvars>>
offWriter == <<evars, wvars, cvars, mvars, svars, pvars, rvars, xvars, gvars, avars, tvars, yvars, nvars>>
notV2 == <<v1vars, offEngine>>
notV1 == <<v2vars, offEngine>>

\* ------------------------------------------------------------------ bounds
MaxRuns == 2
MaxBudget == 2

\* --------------------------------------------------------------- the vault
NoteOrder == <<"n1", "n2">>
Notes == {NoteOrder[i] : i \in 1..Len(NoteOrder)}

\* processors of the configuration that are enabled, in registration order
Registry == <<"transcribe", "custom">>
\* processor names that may own a record in a note ("summarize" is a
\* processor that is not registered in this run)
RecordKeys == {"transcribe", "custom", "summarize"}

ProcessorType(p) == IF p = "custom" THEN "custom_api" ELSE "script"

\* ProcessingStatus: the values of the enum
ProcessingStatus == {"pending", "processing", "completed", "failed", "skipped"}
\* what a status field of a note can hold: no record, an enum value, or a
\* value outside the enum
StatusValues == {"none"} \cup ProcessingStatus \cup {"broken"}

Record(s, t) == [status |-> s, ts |-> t, task_id |-> 0]

\* ------------------------------------------------------ StateManager (V2)
\* get_processing_state: ProcessingStatus(value) raises for a value outside
\* the enum, the handler returns {} for the whole note
get_processing_state(n) ==
    IF \E k \in RecordKeys :
           fm[n][k].status # "none" /\ fm[n][k].status \notin ProcessingStatus
    THEN {}
    ELSE {k \in RecordKeys : fm[n][k].status # "none"}

should_process(n, p) ==
    IF p \notin get_processing_state(n)
    THEN TRUE
    ELSE fm[n][p].status \in {"pending", "failed"}

\* _update_state_atomic: the record of p is replaced, the others are kept
update_processing_state(n, p, s) ==
    [fm EXCEPT ![n][p] = Record(s, run)]

\* ----------------------------------------------------------------- Init
InitV2 ==
    /\ engine = "V2"
    /\ fm \in [Notes -> [RecordKeys -> {Record(s, 0) : s \in StatusValues}]]
    /\ \A k \in RecordKeys :
           fm["n2"][k].status \in {"none", "completed"}
    /\ fm["n1"]["summarize"].status \in {"none", "broken"}
    /\ fm["n2"]["summarize"].status = "none"
    /\ legacyFields \in {{}, {"n1"}}

\* --------------------------------------------------------- run_processing
\* a dry run that is not honoured
DryRunIgnored == FALSE
\* `if self.dry_run`, `if dry_run`: the test every mutator and both engines
\* make before anything is written or invoked
IsDryRun == dry_run

CurNote == NoteOrder[ni]
CurProc == Registry[pi]
CurKey == <<CurNote, CurProc>>

ResetCall ==
    /\ attempt' = 0
    /\ inv' = 0
    /\ res' = "none"
    /\ task' = 0

\* the `except Exception` of the note's try block: the remaining processors
\* of the note are skipped and the scan goes on with the next note
RaiseToNote ==
    /\ ni' = ni + 1
    /\ pi' = 1
    /\ pc' = "check"
    /\ clean' = FALSE
    /\ ResetCall

V2Finish ==
    /\ UNCHANGED notV2
    /\ engine = "V2" /\ pc = "check"
    /\ ni > Len(NoteOrder)
    /\ pc' = "done"
    /\ UNCHANGED <<eligible, engine, run, budget, ni, pi, attempt, inv, res, task, fm,
                   legacyFields, nOk, nFail, unrecorded, finished, clean>>

V2NextNote ==
    /\ UNCHANGED notV2
    /\ engine = "V2" /\ pc = "check"
    /\ ni <= Len(NoteOrder) /\ pi > Len(Registry)
    /\ ni' = ni + 1
    /\ pi' = 1
    /\ UNCHANGED <<eligible, engine, run, pc, budget, attempt, inv, res, task, fm,
                   legacyFields, nOk, nFail, unrecorded, finished, clean>>

V2Skip ==
    /\ UNCHANGED notV2
    /\ engine = "V2" /\ pc = "check"
    /\ ni <= Len(NoteOrder) /\ pi <= Len(Registry)
    /\ ~should_process(CurNote, CurProc)
    /\ pi' = pi + 1
    /\ UNCHANGED <<eligible, engine, run, pc, budget, ni, attempt, inv, res, task, fm,
                   legacyFields, nOk, nFail, unrecorded, finished, clean>>

\* `if dry_run: print("Would process with ...")`: nothing is called for the
\* processor and the loop goes on
V2WouldProcess ==
    /\ UNCHANGED notV2
    /\ engine = "V2" /\ pc = "check"
    /\ ni <= Len(NoteOrder) /\ pi <= Len(Registry)
    /\ should_process(CurNote, CurProc)
    /\ IsDryRun
    /\ pi' = pi + 1
    /\ UNCHANGED <<eligible, engine, run, pc, budget, ni, attempt, inv, res, task, fm,
                   legacyFields, nOk, nFail, unrecorded, finished, clean>>

V2Eligible ==
    /\ UNCHANGED notV2
    /\ engine = "V2" /\ pc = "check"
    /\ ni <= Len(NoteOrder) /\ pi <= Len(Registry)
    /\ should_process(CurNote, CurProc)
    /\ ~IsDryRun
    /\ pc' = "start"
    /\ UNCHANGED <<eligible, engine, run, budget, ni, pi, attempt, inv, res, task, fm,
                   legacyFields, nOk, nFail, unrecorded, finished, clean>>

\* mark_processing_start: the state write may fail and then raises
mark_processing_start ==
    /\ UNCHANGED notV2
    /\ engine = "V2" /\ pc = "start"
    /\ \E written \in BOOLEAN :
         IF written
         THEN /\ fm' = update_processing_state(CurNote, CurProc, "processing")
              /\ pc' = "call"
              /\ UNCHANGED <<ni, pi, attempt, inv, res, task, clean>>
         ELSE /\ RaiseToNote
              /\ UNCHANGED fm
    /\ UNCHANGED <<eligible, engine, run, budget, legacyFields, nOk, nFail,
                   unrecorded, finished>>

\* ProcessorRegistry.process_note: `for attempt in range(retry_attempts)`
LoopRange == budget
process_note_loop ==
    /\ UNCHANGED notV2
    /\ engine = "V2" /\ pc = "call"
    /\ IF attempt < LoopRange
       THEN /\ inv' = inv + 1
            /\ pc' = IF ProcessorType(CurProc) = "custom_api"
                     THEN "submit" ELSE "exec"
            /\ UNCHANGED res
       ELSE /\ res' = "fail"
            /\ pc' = "complete"
            /\ UNCHANGED inv
    /\ UNCHANGED <<eligible, engine, run, budget, ni, pi, attempt, task, fm,
                   legacyFields, nOk, nFail, unrecorded, finished, clean>>

AttemptFailed ==
    /\ attempt' = attempt + 1
    /\ pc' = "call"
    /\ task' = 0
    /\ clean' = FALSE
    /\ UNCHANGED res

AttemptSucceeded ==
    /\ res' = "ok"
    /\ pc' = "complete"
    /\ UNCHANGED <<attempt, task, clean>>

\* BaseProcessor.process_with_timeout around ScriptProcessor.process: a
\* non-zero exit and an exception come back as a failed result; when the
\* timeout expires asyncio.wait_for raises TimeoutError
process_with_timeout ==
    /\ UNCHANGED notV2
    /\ engine = "V2" /\ pc = "exec"
    /\ \E outcome \in {"ok", "fail", "timeout"} :
         CASE outcome = "ok" -> AttemptSucceeded
           [] outcome = "fail" -> AttemptFailed
           [] outcome = "timeout" ->
                /\ pc' = "timeout"
                /\ UNCHANGED <<attempt, res, task, clean>>
    /\ UNCHANGED <<eligible, engine, run, budget, ni, pi, inv, fm, legacyFields, nOk,
                   nFail, unrecorded, finished>>

\* `except asyncio.TimeoutError` of process_with_timeout: a failed result
TimeoutErrorHandled == AttemptFailed

timeout_error ==
    /\ UNCHANGED notV2
    /\ engine = "V2" /\ pc = "timeout"
    /\ TimeoutErrorHandled
    /\ UNCHANGED <<eligible, engine, run, budget, ni, pi, inv, fm, legacyFields, nOk,
                   nFail, unrecorded, finished>>


\* CustomApiProcessor.state_manager: set by ProcessorRegistry.create_processor
\* only when the registry was given a state manager; run_processing builds
\* the registry without one
ProcessorStateManager == FALSE

\* CustomApiProcessor._transcribe_audio, up to the answer to the POST: with
\* no state manager there is no existing task id to resume and the task id
\* of an accepted submission is not stored
submit_task ==
    /\ UNCHANGED notV2
    /\ engine = "V2" /\ pc = "submit"
    /\ \E accepted \in BOOLEAN :
         IF accepted /\ ~ProcessorStateManager
         THEN /\ task' = attempt + 1
              /\ pc' = "poll"
              /\ UNCHANGED <<attempt, res, clean>>
         ELSE AttemptFailed
    /\ UNCHANGED <<eligible, engine, run, budget, ni, pi, inv, fm, legacyFields, nOk,
                   nFail, unrecorded, finished>>

\* _poll_task_completion, _get_task_result and the transcript insertion
poll_task_completion ==
    /\ UNCHANGED notV2
    /\ engine = "V2" /\ pc = "poll"
    /\ \E outcome \in {"completed", "failed", "timeout"} :
         IF outcome = "completed" THEN AttemptSucceeded ELSE AttemptFailed
    /\ UNCHANGED <<eligible, engine, run, budget, ni, pi, inv, fm, legacyFields, nOk,
                   nFail, unrecorded, finished>>

\* mark_processing_complete: the record write, which raises when it fails;
\* the legacy cleanup follows a successful result
CompletedStatus(r) == IF r = "ok" THEN "completed" ELSE "failed"
mark_processing_complete ==
    /\ UNCHANGED notV2
    /\ engine = "V2" /\ pc = "complete"
    /\ \E written \in BOOLEAN :
         IF written
         THEN /\ fm' = update_processing_state(CurNote, CurProc,
                                               CompletedStatus(res))
              /\ pc' = IF res = "ok" /\ CurProc = "transcribe"
                          /\ CurNote \in legacyFields
                       THEN "cleanup" ELSE "append"
              /\ UNCHANGED <<ni, pi, attempt, inv, res, task, clean,
                             unrecorded, finished>>
         ELSE /\ RaiseToNote
              /\ unrecorded' = IF res = "ok" THEN unrecorded \cup {CurKey}
                               ELSE unrecorded
              /\ finished' = finished \cup {CurKey}
              /\ UNCHANGED fm
    /\ UNCHANGED <<eligible, engine, run, budget, legacyFields, nOk, nFail>>

\* _cleanup_legacy_failure_fields when there is a field to remove
cleanup_legacy_failure_fields ==
    /\ UNCHANGED notV2
    /\ engine = "V2" /\ pc = "cleanup"
    /\ \E written \in BOOLEAN :
         IF written
         THEN /\ legacyFields' = legacyFields \ {CurNote}
              /\ pc' = "append"
              /\ UNCHANGED <<ni, pi, attempt, inv, res, task, clean, finished>>
         ELSE /\ RaiseToNote
              /\ finished' = finished \cup {CurKey}
              /\ UNCHANGED legacyFields
    /\ UNCHANGED <<eligible, engine, run, budget, fm, nOk, nFail, unrecorded>>

\* processing_results.append(result); the summary counts them
V2Append ==
    /\ UNCHANGED notV2
    /\ engine = "V2" /\ pc = "append"
    /\ nOk' = IF res = "ok" THEN nOk + 1 ELSE nOk
    /\ nFail' = IF res = "ok" THEN nFail ELSE nFail + 1
    /\ pi' = pi + 1
    /\ pc' = "check"
    /\ ResetCall
    /\ finished' = finished \cup {CurKey}
    /\ UNCHANGED <<eligible, engine, run, budget, ni, fm, legacyFields,
                   unrecorded, clean>>


\* ------------------------------------------- StatelessStateManager (V1)
\* the recordings found in each note, in the order of the note's text;
\* a recording is named by its rank in the sort order of the file names
Recordings == ("n1" :> <<2, 1>>) @@ ("n2" :> <<3>>)

InSeq(x, s) == \E i \in 1..Len(s) : s[i] = x

\* list.sort()
Sorted(s) == SortSeq(s, LAMBDA a, b : a < b)

\* `list.append(name)` without the membership test and the sort
AppendAlways(s, x) == Append(s, x)

\* `if name not in list: list.append(name); list.sort()`
AppendSorted(s, x) == IF InSeq(x, s) THEN s ELSE Sorted(Append(s, x))

\* get_unprocessed_recordings when the broken list is not consulted
unprocessed_ignoring_broken(n, all) ==
    SelectSeq(all, LAMBDA r : ~InSeq(r, cache[n].processed))

\* get_unprocessed_recordings reads the connected vault object
get_unprocessed_recordings(n, all) ==
    SelectSeq(all, LAMBDA r : ~InSeq(r, cache[n].processed)
                              /\ ~InSeq(r, cache[n].broken))

\* what a call of mark_recording_processed / mark_recording_broken can do:
\* "ok": the note is rewritten and the vault reloaded, True is returned;
\* "fail": an error before the write, nothing changes, False is returned;
\* "reloadfail": the note is rewritten, the reload raises, False is returned
MarkOutcomes == {"ok", "fail", "reloadfail"}

\* frontmatter["broken_recordings_info"][recording_filename] = {...}: the
\* entry of the filename is replaced; an entry is <<filename, timestamp>>
SetInfo(info, r, t) == {e \in info : e[1] # r} \cup {<<r, t>>}

Marked(field, n, r, err) ==
    [lists EXCEPT ![n][field] = AppendSorted(lists[n][field], r),
                  ![n].info = IF field = "broken" /\ err
                              THEN SetInfo(@, r, run) ELSE @]

\* err: an error_message was passed (mark_recording_broken only)
mark_recording(field, n, r, err, outcome) ==
    /\ lists' = IF outcome = "fail" THEN lists ELSE Marked(field, n, r, err)
    /\ cache' = IF outcome = "ok" THEN Marked(field, n, r, err) ELSE cache

SortedSeqs(S) == {Sorted(q) : q \in UNION {[1..k -> S] : k \in 0..Cardinality(S)}}
NoDup(s) == \A i, j \in 1..Len(s) : i # j => s[i] # s[j]
RecSet(n) == {Recordings[n][i] : i \in 1..Len(Recordings[n])}
NoteLists(n) ==
    {[processed |-> p, broken |-> b,
      info |-> {<<b[i], 0>> : i \in 1..Len(b)}] :
        p \in {q \in SortedSeqs(RecSet(n)) : NoDup(q)},
        b \in {q \in SortedSeqs(RecSet(n)) : NoDup(q)}}

InitV1 ==
    /\ engine = "V1"
    /\ lists \in [Notes -> UNION {NoteLists(n) : n \in Notes}]
    /\ \A n \in Notes : lists[n] \in NoteLists(n)
    /\ cache = lists

\* ----------------------------------- ObsidianProcessor (V1): process_vault
CurRec == todo[pi]
V1Key == <<CurNote, CurRec>>

\* process_vault(dry_run=True): `if not dry_run` skips step 4, the results
\* keep the newly_processed and failed_processing they were created with
V1DryRun ==
    /\ UNCHANGED notV1
    /\ engine = "V1" /\ pc = "check"
    /\ IsDryRun
    /\ pc' = "done"
    /\ UNCHANGED <<eligible, engine, run, budget, ni, pi, attempt, inv, res, task,
                   nOk, nFail, unrecorded, finished, clean, lists, cache, todo,
                   markCalls, brokenCalls, eligible>>

V1Finish ==
    /\ UNCHANGED notV1
    /\ engine = "V1" /\ pc = "check"
    /\ ~IsDryRun
    /\ ni > Len(NoteOrder)
    /\ pc' = "done"
    /\ UNCHANGED <<eligible, engine, run, budget, ni, pi, attempt, inv, res, task,
                   nOk, nFail, unrecorded, finished, clean, lists, cache, todo,
                   markCalls, brokenCalls, eligible>>

\* _process_unprocessed_recordings: the unprocessed recordings of the note
V1Note ==
    /\ UNCHANGED notV1
    /\ engine = "V1" /\ pc = "check"
    /\ ~IsDryRun
    /\ ni <= Len(NoteOrder)
    /\ todo' = get_unprocessed_recordings(CurNote, Recordings[CurNote])
    /\ pi' = 1
    /\ pc' = "rec"
    /\ UNCHANGED <<eligible, engine, run, budget, ni, attempt, inv, res, task, nOk,
                   nFail, unrecorded, finished, clean, lists, cache, markCalls,
                   brokenCalls>>

V1NextNote ==
    /\ UNCHANGED notV1
    /\ engine = "V1" /\ pc = "rec"
    /\ pi > Len(todo)
    /\ ni' = ni + 1
    /\ pi' = 1
    /\ todo' = <<>>
    /\ pc' = "check"
    /\ UNCHANGED <<eligible, engine, run, budget, attempt, inv, res, task, nOk, nFail,
                   unrecorded, finished, clean, lists, cache, markCalls, brokenCalls>>

V1Recording ==
    /\ UNCHANGED notV1
    /\ engine = "V1" /\ pc = "rec"
    /\ pi <= Len(todo)
    /\ pc' = "call"
    /\ UNCHANGED <<eligible, engine, run, budget, ni, pi, attempt, inv, res, task, nOk,
                   nFail, unrecorded, finished, clean, lists, cache, todo, markCalls,
                   brokenCalls>>

\* a loop that makes one attempt more than its budget
MaxRetriesOffByOne == budget + 1
\* _process_single_recording: `for attempt in range(max_retries)`, and the
\* fall through to mark_recording_broken when the loop ends
MaxRetries == budget
process_single_recording_loop ==
    /\ UNCHANGED notV1
    /\ engine = "V1" /\ pc = "call"
    /\ IF attempt < MaxRetries
       THEN /\ inv' = inv + 1
            /\ pc' = "exec"
       ELSE /\ pc' = "markbroken"
            /\ UNCHANGED inv
    /\ UNCHANGED <<eligible, engine, run, budget, ni, pi, attempt, res, task, nOk,
                   nFail, unrecorded, finished, clean, lists, cache, todo, markCalls,
                   brokenCalls>>

\* the final attempt raised: `return False`, without marking broken
RaisedOnFinalAttempt == "return"
\* run_script returned False: `continue`
ScriptFailed ==
    /\ pc' = "continue"
    /\ clean' = FALSE
    /\ UNCHANGED <<attempt, res>>

\* an exception in the try block of the attempt: `continue`, or
\* `return False` when the attempt was the final one
ScriptRaised ==
    /\ clean' = FALSE
    /\ IF attempt < MaxRetries - 1
       THEN /\ pc' = "continue"
            /\ UNCHANGED <<attempt, res>>
       ELSE /\ res' = "fail"
            /\ pc' = RaisedOnFinalAttempt
            /\ attempt' = attempt + 1

\* script_runner.run_script returned True, returned False, or raised, or
\* subprocess.run raised TimeoutExpired inside it
run_script ==
    /\ UNCHANGED notV1
    /\ engine = "V1" /\ pc = "exec"
    /\ \E outcome \in {"ok", "fail", "raise", "timeout"} :
         CASE outcome = "ok" ->
                /\ pc' = "mark"
                /\ UNCHANGED <<attempt, res, clean>>
           [] outcome = "fail" -> ScriptFailed
           [] outcome = "raise" -> ScriptRaised
           [] outcome = "timeout" ->
                /\ pc' = "timeout"
                /\ UNCHANGED <<attempt, res, clean>>
    /\ UNCHANGED <<eligible, engine, run, budget, ni, pi, inv, task, nOk, nFail,
                   unrecorded, finished, lists, cache, todo, markCalls, brokenCalls>>

\* a TimeoutExpired that leaves run_script
TimeoutExpiredRaised == ScriptRaised

\* `except subprocess.TimeoutExpired: return False` of run_script
TimeoutExpiredHandled == ScriptFailed

timeout_expired ==
    /\ UNCHANGED notV1
    /\ engine = "V1" /\ pc = "timeout"
    /\ TimeoutExpiredHandled
    /\ UNCHANGED <<eligible, engine, run, budget, ni, pi, inv, task, nOk, nFail,
                   unrecorded, finished, lists, cache, todo, markCalls, brokenCalls>>

\* `continue`: the for loop takes the next value of range(max_retries)
V1Continue ==
    /\ UNCHANGED notV1
    /\ engine = "V1" /\ pc = "continue"
    /\ attempt' = attempt + 1
    /\ pc' = "call"
    /\ UNCHANGED <<eligible, engine, run, budget, ni, pi, inv, res, task, nOk, nFail,
                   unrecorded, finished, clean, lists, cache, todo, markCalls,
                   brokenCalls>>

\* a failed state write that is taken for an exhausted budget
AfterMarkFailureBroken == "markbroken"
\* a loop that went on after a failed state write, as it does after a failed
\* script
AfterMarkFailureContinue == "continue"
\* the script succeeded: mark_recording_processed decides the return value;
\* a False is returned at once (a state management error is not retried)
AfterMarkFailure == "return"
mark_recording_processed ==
    /\ UNCHANGED notV1
    /\ engine = "V1" /\ pc = "mark"
    /\ markCalls' = markCalls + 1
    /\ \E outcome \in MarkOutcomes :
         /\ mark_recording("processed", CurNote, CurRec, FALSE, outcome)
         /\ IF outcome = "ok"
            THEN /\ res' = "ok"
                 /\ pc' = "return"
                 /\ UNCHANGED <<unrecorded, finished, clean, attempt>>
            ELSE /\ res' = "fail"
                 /\ pc' = AfterMarkFailure
                 /\ unrecorded' = unrecorded \cup {V1Key}
                 /\ clean' = FALSE
                 /\ UNCHANGED <<attempt, finished>>
    /\ UNCHANGED <<eligible, engine, run, budget, ni, pi, inv, task, nOk, nFail, todo,
                   brokenCalls>>

\* after all attempts failed: mark the recording broken and return False
mark_recording_broken ==
    /\ UNCHANGED notV1
    /\ engine = "V1" /\ pc = "markbroken"
    /\ brokenCalls' = brokenCalls + 1
    /\ \E outcome \in MarkOutcomes :
         /\ mark_recording("broken", CurNote, CurRec, TRUE, outcome)
         /\ clean' = (clean /\ outcome = "ok")
    /\ res' = "fail"
    /\ pc' = "return"
    /\ UNCHANGED <<eligible, engine, run, budget, ni, pi, attempt, inv, task, nOk,
                   nFail, unrecorded, finished, todo, markCalls>>

\* back in _process_unprocessed_recordings: count the result
V1Return ==
    /\ UNCHANGED notV1
    /\ engine = "V1" /\ pc = "return"
    /\ nOk' = IF res = "ok" THEN nOk + 1 ELSE nOk
    /\ nFail' = IF res = "ok" THEN nFail ELSE nFail + 1
    /\ pi' = pi + 1
    /\ pc' = "rec"
    /\ markCalls' = 0
    /\ brokenCalls' = 0
    /\ ResetCall
    /\ finished' = finished \cup {V1Key}
    /\ UNCHANGED <<eligible, engine, run, budget, ni, unrecorded, clean, lists,
                   cache, todo>>

NextV1 ==
    \/ V1Finish
    \/ V1Note
    \/ V1NextNote
    \/ V1Recording
    \/ process_single_recording_loop
    \/ run_script
    \/ timeout_expired
    \/ V1Continue
    \/ mark_recording_processed
    \/ mark_recording_broken
    \/ V1Return

\* ------------------------------------------------------------- the runs
\* the attachments a run that starts now finds eligible: V2 the (note,
\* processor) pairs with should_process, V1 the recordings of every note
\* that are in neither list of the note
EligibleV2 ==
    {x \in Notes \X (1..Len(Registry)) : should_process(x[1], Registry[x[2]])}
EligibleV1(l) ==
    {x \in UNION {{n} \X (1..Len(Recordings[n])) : n \in Notes} :
        /\ ~InSeq(Recordings[x[1]][x[2]], l[x[1]].processed)
        /\ ~InSeq(Recordings[x[1]][x[2]], l[x[1]].broken)}
EligibleAtStart(e, l) ==
    IF e = "V2" THEN Cardinality(EligibleV2)
    ELSE IF e = "V1" THEN Cardinality(EligibleV1(l)) ELSE 0

NewRun ==
    /\ run < MaxRuns
    /\ run' = run + 1
    /\ pc' = "check"
    /\ ni' = 1
    /\ pi' = 1
    /\ nOk' = 0
    /\ nFail' = 0
    /\ unrecorded' = {}
    /\ finished' = {}
    /\ cache' = lists
    /\ todo' = <<>>
    /\ markCalls' = 0
    /\ brokenCalls' = 0
    /\ eligible' = EligibleAtStart(engine, lists)
    /\ UNCHANGED lists
    /\ ResetCall

\* the run has ended and the engine is started again
NextRun ==
    /\ pc = "done"
    /\ NewRun
    /\ UNCHANGED <<engine, budget, fm, legacyFields, clean, offEngine>>

\* the process is killed in the middle of a run and started again
Kill ==
    /\ pc # "done"
    /\ NewRun
    /\ clean' = FALSE
    /\ UNCHANGED <<engine, budget, fm, legacyFields, offEngine>>

NextV2 ==
    \/ V2Finish
    \/ V2NextNote
    \/ V2Skip
    \/ V2Eligible
    \/ mark_processing_start
    \/ process_note_loop
    \/ process_with_timeout
    \/ timeout_error
    \/ submit_task
    \/ poll_task_completion
    \/ mark_processing_complete
    \/ cleanup_legacy_failure_fields
    \/ V2Append

InitV2Idle ==
    /\ fm = [n \in Notes |-> [k \in RecordKeys |-> Record("none", 0)]]
    /\ legacyFields = {}

InitV1Idle ==
    /\ lists = [n \in Notes |-> [processed |-> <<>>, broken |-> <<>>,
                                 info |-> {}]]
    /\ cache = lists

InitEngine ==
    /\ run = 1
    /\ pc = "check"
    /\ budget \in 0..MaxBudget
    /\ ni = 1
    /\ pi = 1
    /\ attempt = 0
    /\ inv = 0
    /\ res = "none"
    /\ task = 0
    /\ nOk = 0
    /\ nFail = 0
    /\ unrecorded = {}
    /\ finished = {}
    /\ clean = TRUE
    /\ todo = <<>>
    /\ markCalls = 0
    /\ brokenCalls = 0
    /\ \/ InitV2 /\ InitV1Idle
       \/ InitV1 /\ InitV2Idle
    /\ eligible = EligibleAtStart(engine, lists)

\* ---------------------------------- StateManager._write_file_atomic
\* longest content of a file, and calls of _write_file_atomic in a behaviour
MaxLen == 2
MaxWrites == 2

Bytes == {1, 2}
Contents == UNION {[1..n -> Bytes] : n \in 1..MaxLen}
Absent == [exists |-> FALSE, data |-> <<>>]
File(d) == [exists |-> TRUE, data |-> d]

file_path == <<"note.md">>
\* a temporary path that is the path of the note itself
same_path(p) == p
\* temp_path = file_path.with_suffix(f"{file_path.suffix}.tmp")
temp_path(p) == p \o <<".tmp">>
Paths == {file_path, temp_path(file_path)}

\* Path.replace: rename(2), source and target being the same file included
Rename(f, src, dst) ==
    IF src = dst THEN f ELSE [f EXCEPT ![dst] = f[src], ![src] = Absent]

\* the note exists; a temporary file may be left over from a killed write
InitWrite ==
    /\ fs \in [Paths -> {File(d) : d \in Contents \cup {<<>>}} \cup {Absent}]
    /\ fs[file_path].exists /\ fs[file_path].data # <<>>
    /\ wpc = "idle"
    /\ content = fs[file_path].data
    /\ before = fs[file_path].data
    /\ renamed = FALSE
    /\ writes = 0

\* _update_state_atomic calls _write_file_atomic(note_path, new_content)
write_file_atomic ==
    /\ wpc \in {"idle", "returned", "raised", "killed"}
    /\ writes < MaxWrites
    /\ writes' = writes + 1
    /\ \E c \in Contents : content' = c
    /\ before' = fs[file_path].data
    /\ renamed' = FALSE
    /\ wpc' = "open"
    /\ UNCHANGED <<fs, offWrite>>

\* temp_path.write_text: the file is opened for writing (created or
\* truncated), or the open fails
write_text_open ==
    /\ wpc = "open"
    /\ \/ /\ fs' = [fs EXCEPT ![temp_path(file_path)] = File(<<>>)]
          /\ wpc' = "write"
       \/ /\ wpc' = "except"
          /\ UNCHANGED fs
    /\ UNCHANGED <<content, before, renamed, writes, offWrite>>

\* temp_path.write_text: the next byte reaches the file, the file is
\* complete and closed, or the write fails
write_text_write ==
    /\ wpc = "write"
    /\ LET t == temp_path(file_path)
           d == fs[t].data
       IN  \/ /\ Len(d) < Len(content)
              /\ fs' = [fs EXCEPT ![t] = File(Append(d, content[Len(d) + 1]))]
              /\ wpc' = "write"
           \/ /\ Len(d) = Len(content)
              /\ wpc' = "replace"
              /\ UNCHANGED fs
           \/ /\ wpc' = "except"
              /\ UNCHANGED fs
    /\ UNCHANGED <<content, before, renamed, writes, offWrite>>

\* temp_path.replace(file_path) succeeds or raises
replace ==
    /\ wpc = "replace"
    /\ \/ /\ fs' = Rename(fs, temp_path(file_path), file_path)
          /\ renamed' = TRUE
          /\ wpc' = "returned"
       \/ /\ wpc' = "except"
          /\ UNCHANGED <<fs, renamed>>
    /\ UNCHANGED <<content, before, writes, offWrite>>

\* except Exception: unlink the temporary file if it exists, raise again
except_cleanup ==
    /\ wpc = "except"
    /\ fs' = IF fs[temp_path(file_path)].exists
             THEN [fs EXCEPT ![temp_path(file_path)] = Absent]
             ELSE fs
    /\ wpc' = "raised"
    /\ UNCHANGED <<content, before, renamed, writes, offWrite>>

\* the process is killed inside _write_file_atomic
kill_write ==
    /\ wpc \in {"open", "write", "replace", "except"}
    /\ wpc' = "killed"
    /\ UNCHANGED <<fs, content, before, renamed, writes, offWrite>>

WriteIdle ==
    /\ fs = [p \in Paths |-> IF p = file_path THEN File(<<1>>) ELSE Absent]
    /\ wpc = "idle"
    /\ content = <<1>>
    /\ before = <<1>>
    /\ renamed = FALSE
    /\ writes = 0

NextWrite ==
    \/ write_file_atomic
    \/ write_text_open
    \/ write_text_write
    \/ replace
    \/ except_cleanup
    \/ kill_write

\* ------------------------------------ writers as tasks of one event loop
\* tasks of the event loop, and operations started in a behaviour
NumTasks == 2
MaxOps == 3

Tasks == 1..NumTasks
\* update_processing_state, _cleanup_legacy_failure_fields,
\* cleanup_old_states, and a processor's process() that ends with
\* _insert_transcription_into_note
Kinds == {"update", "cleanup_legacy", "cleanup_old", "insert"}
NoOp == [kind |-> "none", note |-> "n1"]

\* awaits at which every awaited coroutine gives up the event loop
EveryAwait == {"transcribe_audio", "parse_note"}
\* awaits that reach the event loop: _transcribe_audio waits for the remote
\* service; parse_note is a coroutine without an await of its own (it reads
\* with the blocking read_text), so `await parser.parse_note(...)` runs
\* through without a switch of tasks
SuspendingAwaits == {"transcribe_audio"}

AfterAwait(t, call) == IF call \in SuspendingAwaits THEN 0 ELSE t

InitConc ==
    /\ tpc = [t \in Tasks |-> "idle"]
    /\ top = [t \in Tasks |-> NoOp]
    /\ running = 0
    /\ lock = 0
    /\ ver = [n \in Notes |-> 0]
    /\ seen = [t \in Tasks |-> -1]
    /\ ops = 0

\* a task is created for an operation on a note
task_start(t) ==
    /\ running = 0 /\ tpc[t] = "idle"
    /\ ops < MaxOps
    /\ ops' = ops + 1
    /\ \E k \in Kinds, n \in Notes :
         /\ top' = [top EXCEPT ![t] = [kind |-> k, note |-> n]]
         /\ tpc' = [tpc EXCEPT ![t] =
                        CASE k = "insert" -> "await_op"
                          [] k = "cleanup_old" -> "read_outside"
                          [] OTHER -> "acquire"]
    /\ UNCHANGED <<running, lock, ver, seen, offConc>>

\* the event loop runs a task that is ready (a task waiting for the lock is
\* ready when the lock is free)
schedule(t) ==
    /\ running = 0 /\ tpc[t] # "idle"
    /\ tpc[t] = "acquire" => lock = 0
    /\ running' = t
    /\ UNCHANGED <<tpc, top, lock, ver, seen, ops, offConc>>

\* process(): transcript = await self._transcribe_audio(...)
transcribe_audio(t) ==
    /\ running = t /\ tpc[t] = "await_op"
    /\ tpc' = [tpc EXCEPT ![t] = "read"]
    /\ running' = AfterAwait(t, "transcribe_audio")
    /\ UNCHANGED <<top, lock, ver, seen, ops, offConc>>

\* cleanup_old_states: states = await self.get_processing_state(note_path),
\* before the lock is taken; without states_to_remove it returns
read_outside_lock(t) ==
    /\ running = t /\ tpc[t] = "read_outside"
    /\ \/ /\ seen' = [seen EXCEPT ![t] = ver[top[t].note]]
          /\ tpc' = [tpc EXCEPT ![t] = "acquire"]
          /\ running' = AfterAwait(t, "parse_note")
       \/ /\ tpc' = [tpc EXCEPT ![t] = "idle"]
          /\ running' = 0
          /\ UNCHANGED seen
    /\ UNCHANGED <<top, lock, ver, ops, offConc>>

\* async with self._lock: a free lock is taken without a switch of tasks,
\* a held lock suspends the task
acquire(t) ==
    /\ running = t /\ tpc[t] = "acquire"
    /\ IF lock = 0
       THEN /\ lock' = t
            /\ tpc' = [tpc EXCEPT ![t] = "read"]
            /\ UNCHANGED running
       ELSE /\ running' = 0
            /\ UNCHANGED <<lock, tpc>>
    /\ UNCHANGED <<top, ver, seen, ops, offConc>>

\* the writer reads the note: await self.parser.parse_note(note_path) in the
\* StateManager, the blocking note_path.read_text() in
\* _insert_transcription_into_note
read_note(t) ==
    /\ running = t /\ tpc[t] = "read"
    /\ seen' = [seen EXCEPT ![t] = IF @ = -1 THEN ver[top[t].note] ELSE @]
    /\ tpc' = [tpc EXCEPT ![t] = "write"]
    /\ running' = IF top[t].kind = "insert" THEN t
                  ELSE AfterAwait(t, "parse_note")
    /\ UNCHANGED <<top, lock, ver, ops, offConc>>

\* the writer writes the note back (the cleanups only when they removed a
\* field); an operation without the lock ends here
write_note(t) ==
    /\ running = t /\ tpc[t] = "write"
    /\ \E written \in BOOLEAN :
         /\ top[t].kind \in {"update", "insert"} => written
         /\ ver' = IF written THEN [ver EXCEPT ![top[t].note] = @ + 1] ELSE ver
    /\ seen' = [seen EXCEPT ![t] = -1]
    /\ IF lock = t
       THEN /\ tpc' = [tpc EXCEPT ![t] = "release"]
            /\ UNCHANGED running
       ELSE /\ tpc' = [tpc EXCEPT ![t] = "idle"]
            /\ running' = 0
    /\ UNCHANGED <<top, lock, ops, offConc>>

\* the end of `async with self._lock`, and of the operation
release(t) ==
    /\ running = t /\ tpc[t] = "release"
    /\ lock' = 0
    /\ tpc' = [tpc EXCEPT ![t] = "idle"]
    /\ running' = 0
    /\ UNCHANGED <<top, ver, seen, ops, offConc>>

ConcIdle == InitConc

NextConc ==
    \/ \E t \in Tasks : task_start(t)
    \/ \E t \in Tasks : schedule(t)
    \/ \E t \in Tasks : transcribe_audio(t)
    \/ \E t \in Tasks : read_outside_lock(t)
    \/ \E t \in Tasks : acquire(t)
    \/ \E t \in Tasks : read_note(t)
    \/ \E t \in Tasks : write_note(t)
    \/ \E t \in Tasks : release(t)

\* --------------- StatelessStateManager: mark calls made by any client
\* calls of mark_recording_processed / mark_recording_broken in a behaviour
MaxMarks == 3

\* the latest call of every filename that returned True; the time is that of
\* the latest one that passed an error message (0: none did)
Remember(m, field, n, r, t) ==
    LET old == {e \in m : <<e[1], e[2], e[3]>> = <<field, n, r>>}
    IN  (m \ old) \cup
        {<<field, n, r, IF t > 0 THEN t
                        ELSE IF old = {} THEN 0 ELSE (CHOOSE e \in old : TRUE)[4]>>}

\* one call mark_recording_<field>(n, r[, error_message]); `run` is the clock
\* of the calls (datetime.now() of mark_recording_broken)
call_mark(field, n, r, err) ==
    /\ run <= MaxMarks
    /\ run' = run + 1
    /\ \E outcome \in MarkOutcomes :
         /\ mark_recording(field, n, r, err, outcome)
         /\ res' = IF outcome = "ok" THEN "ok" ELSE "fail"
         /\ marked' = IF outcome = "ok"
                       THEN Remember(marked, field, n, r, IF err THEN run ELSE 0)
                       ELSE marked
         /\ repeated' = (repeated \/ (outcome = "ok" /\
                            \E e \in marked : <<e[1], e[2], e[3]>> = <<field, n, r>>))
    /\ UNCHANGED <<engine, pc, budget, ni, pi, attempt, inv, task, fm,
                   legacyFields, nOk, nFail, unrecorded, finished, clean, todo,
                   markCalls, brokenCalls, eligible, wvars, cvars, svars, pvars,
                   rvars, xvars, gvars, avars, tvars, yvars, nvars, uvars>>

call_mark_recording_processed ==
    \E n \in Notes : \E r \in RecSet(n) : call_mark("processed", n, r, FALSE)

call_mark_recording_broken ==
    \E n \in Notes : \E r \in RecSet(n) : \E err \in BOOLEAN :
        call_mark("broken", n, r, err)

MarksIdle ==
    /\ marked = {}
    /\ repeated = FALSE

\* a connected StatelessStateManager on notes whose lists the code wrote
InitMarks ==
    /\ lists \in [Notes -> UNION {NoteLists(n) : n \in Notes}]
    /\ \A n \in Notes : lists[n] \in NoteLists(n)
    /\ cache = lists
    /\ MarksIdle

NextMarks ==
    \/ call_mark_recording_processed
    \/ call_mark_recording_broken

\* ------------------------------ StateManager: calls made by any client
\* calls of StateManager methods in a behaviour
MaxCalls == 3

NoCall == <<"none", "none", "none">>

offState == <<engine, pc, budget, ni, pi, attempt, inv, task, nOk, nFail,
              unrecorded, finished, clean, lists, cache, todo, markCalls, brokenCalls,
              eligible, wvars, cvars, mvars, pvars, rvars, xvars,
              gvars,
              avars,
              tvars,
              yvars,
              nvars,
              uvars, dry_run>>

\* update_processing_state as its caller sees it: with dry_run it returns
\* before the write; the write raises or replaces the note
StateWrite(new) ==
    \E outcome \in {"ok", "raise"} :
        /\ res' = IF IsDryRun THEN "ok" ELSE outcome
        /\ fm' = IF IsDryRun \/ outcome = "raise" THEN fm ELSE new

\* one call of a StateManager method; `run` is the clock (time.time())
Called(name, n, p) ==
    /\ run <= MaxCalls
    /\ run' = run + 1
    /\ op' = <<name, n, p>>
    /\ UNCHANGED offState

\* an automatic run: `if should_process: mark_processing_start` (main.py)
call_mark_processing_start ==
    \E n \in Notes : \E i \in 1..Len(Registry) :
        /\ should_process(n, Registry[i])
        /\ Called("mark_processing_start", n, Registry[i])
        /\ StateWrite(update_processing_state(n, Registry[i], "processing"))
        /\ UNCHANGED <<legacyFields, reset_done>>

\* an automatic run: mark_processing_complete follows the start of the same
\* (note, processor) with the result of the processor
call_mark_processing_complete ==
    \E n \in Notes : \E i \in 1..Len(Registry) : \E success \in BOOLEAN :
        /\ op = <<"mark_processing_start", n, Registry[i]>> /\ res = "ok"
        /\ Called(IF success THEN "mark_processing_complete"
                              ELSE "mark_processing_failed", n, Registry[i])
        /\ StateWrite(update_processing_state(n, Registry[i],
                          IF success THEN "completed" ELSE "failed"))
        /\ legacyFields' = IF success /\ res' = "ok" /\ ~IsDryRun
                              /\ Registry[i] = "transcribe"
                           THEN legacyFields \ {n} ELSE legacyFields
        /\ UNCHANGED reset_done

\* a reset that leaves the record as it is
ResetKeepsStatus(n, p) == fm[n][p].status

\* ProcessingState(status=ProcessingStatus.PENDING, ...) of the reset
ResetStatusOf(n, p) == "pending"

reset_processor_state ==
    \E n \in Notes : \E i \in 1..Len(Registry) :
        /\ Called("reset_processor_state", n, Registry[i])
        /\ StateWrite(update_processing_state(n, Registry[i],
                          ResetStatusOf(n, Registry[i])))
        /\ reset_done' = IF fm[n][Registry[i]].status = "completed" /\ fm' # fm
                         THEN reset_done \cup {<<n, Registry[i]>>} ELSE reset_done
        /\ UNCHANGED legacyFields

\* states_to_remove of cleanup_old_states: the completed and failed records
\* older than the cutoff
states_to_remove(n, cutoff) ==
    {k \in get_processing_state(n) :
        fm[n][k].ts < cutoff /\ fm[n][k].status \in {"completed", "failed"}}

\* cleanup_old_states(note, max_age_days): cutoff is time.time() less the age
cleanup_old_states ==
    \E n \in Notes : \E cutoff \in 0..run :
        /\ Called("cleanup_old_states", n, "none")
        /\ IF IsDryRun \/ states_to_remove(n, cutoff) = {}
           THEN res' = "ok" /\ fm' = fm
           ELSE StateWrite([fm EXCEPT ![n] =
                    [k \in RecordKeys |->
                        IF k \in states_to_remove(n, cutoff)
                        THEN Record("none", 0) ELSE fm[n][k]]])
        /\ UNCHANGED <<legacyFields, reset_done>>

StateIdle ==
    /\ dry_run = FALSE
    /\ op = NoCall
    /\ reset_done = {}

\* a StateManager on notes with any records
InitState ==
    /\ fm \in [Notes -> [RecordKeys -> {Record(s, 0) : s \in StatusValues}]]
    /\ \A k \in RecordKeys : fm["n2"][k].status \in {"none", "completed"}
    /\ fm["n1"]["summarize"].status \in {"none", "broken"}
    /\ fm["n2"]["summarize"].status = "none"
    /\ legacyFields \in {{}, {"n1"}}
    /\ dry_run \in BOOLEAN
    /\ op = NoCall
    /\ reset_done = {}

NextState ==
    \/ call_mark_processing_start
    \/ call_mark_processing_complete
    \/ reset_processor_state
    \/ cleanup_old_states

\* ------------------------------- CustomApiProcessor._poll_task_completion
\* the largest self.timeout and the longest status request, tenths of a second
MaxTimeout == 80
MaxLatency == 5
\* the status requests that are counted
MaxPolls == 4

\* poll_interval = 2.0, max_interval = 10.0, factor 1.2 (tenths of a second)
FirstInterval == 20
MaxInterval == 100
BackoffTenths == 12

Min(a, b) == IF a < b THEN a ELSE b

\* what a status request can come back with: HTTP 200 with a status, another
\* code, or an aiohttp.ClientError
CompletedStatuses == {"completed", "success", "done"}
FailedStatuses == {"failed", "error"}
PendingStatuses == {"pending", "running", "processing", "queued"}
StatusResponses ==
    {"completed", "done", "failed", "pending", "queued", "unknown",
     "http404", "http500", "ClientError"}

\* what the result request can come back with
ResultResponses == {"text", "empty", "http500", "ClientError"}

\* a loop that does not wait between two polls
NoSleep(i) == 0

\* await asyncio.sleep(poll_interval)
Sleep(i) == i

InitPoll ==
    /\ ppc = "while"
    /\ timeout \in {0, MaxTimeout \div 2, MaxTimeout}
    /\ elapsed = 0
    /\ poll_interval = FirstInterval
    /\ polls = 0
    /\ observed = "none"
    /\ why = "none"

PollIdle ==
    /\ ppc = "off"
    /\ timeout = 0
    /\ elapsed = 0
    /\ poll_interval = FirstInterval
    /\ polls = 0
    /\ observed = "none"
    /\ why = "none"

\* `while time.time() - start_time < self.timeout`, and the raise after it
poll_while ==
    /\ ppc = "while"
    /\ IF elapsed < timeout
       THEN ppc' = "get" /\ why' = why
       ELSE ppc' = "raised" /\ why' = "timed out"
    /\ UNCHANGED <<timeout, elapsed, poll_interval, polls, observed, offPoll>>

\* session.get(status_endpoint) and the branches on its answer
poll_get ==
    /\ ppc = "get"
    /\ polls' = Min(polls + 1, MaxPolls)
    /\ \E latency \in {0, MaxLatency} : elapsed' = elapsed + latency
    /\ \E response \in StatusResponses :
         /\ observed' = response
         /\ CASE response \in CompletedStatuses ->
                    ppc' = "result" /\ why' = why
              [] response \in FailedStatuses ->
                    ppc' = "raised" /\ why' = "Transcription failed"
              [] response = "http404" ->
                    ppc' = "raised" /\ why' = "not found"
              [] OTHER ->
                    ppc' = "sleep" /\ why' = why
    /\ UNCHANGED <<timeout, poll_interval, offPoll>>

\* asyncio.sleep(poll_interval); poll_interval = min(poll_interval * 1.2, max_interval)
poll_sleep ==
    /\ ppc = "sleep"
    /\ elapsed' = elapsed + Sleep(poll_interval)
    /\ poll_interval' = Min((poll_interval * BackoffTenths) \div 10, MaxInterval)
    /\ ppc' = "while"
    /\ UNCHANGED <<timeout, polls, observed, why, offPoll>>

\* _get_task_result: the transcription, or an exception
get_task_result ==
    /\ ppc = "result"
    /\ \E response \in ResultResponses :
         IF response = "text"
         THEN ppc' = "returned" /\ why' = why
         ELSE ppc' = "raised" /\ why' = "result"
    /\ UNCHANGED <<timeout, elapsed, poll_interval, polls, observed, offPoll>>

NextPoll ==
    \/ poll_while
    \/ poll_get
    \/ poll_sleep
    \/ get_task_result

\* ------------------------- create_processor_registry_from_config, the scan
\* the items of config["processors"], in the order of the dict
ConfigNames == <<"transcribe", "custom", "summarize">>

\* ProcessorRegistry.processor_types
processor_types == {"whisper", "script", "custom_api"}
ConfigTypes == processor_types \cup {"unknown", "none"}

\* the constructor of the type raises ValueError: a script without command,
\* a custom_api without api_url
ConstructorRaises(item) ==
    item.type \in {"script", "custom_api"} /\ ~item.field

\* ProcessorRegistry.create_processor raises
CreateRaises(item) ==
    item.type \notin processor_types \/ ConstructorRaises(item)

InitRegistration ==
    /\ processors_config \in
          [1..Len(ConfigNames) ->
              [enabled : BOOLEAN, type : ConfigTypes, field : BOOLEAN]]
    /\ rpc = "register"
    /\ ci = 1
    /\ processors = <<>>
    /\ notes_read = {}
    /\ notes_modified = {}

RegistrationIdle ==
    /\ processors_config = <<>>
    /\ rpc = "off"
    /\ ci = 1
    /\ processors = <<>>
    /\ notes_read = {}
    /\ notes_modified = {}

\* one turn of the loop of create_processor_registry_from_config: a disabled
\* item is passed over; an exception of create_processor is logged by
\* `except Exception` and the loop goes on
create_processor ==
    /\ rpc = "register" /\ ci <= Len(ConfigNames)
    /\ ci' = ci + 1
    /\ processors' =
          IF processors_config[ci].enabled /\ ~CreateRaises(processors_config[ci])
          THEN Append(processors, ConfigNames[ci]) ELSE processors
    /\ UNCHANGED <<processors_config, rpc, notes_read, notes_modified,
                   offRegistration>>

\* `return registry`; run_processing starts the scan
registry_returned ==
    /\ rpc = "register" /\ ci > Len(ConfigNames)
    /\ rpc' = "scan"
    /\ UNCHANGED <<processors_config, ci, processors, notes_read,
                   notes_modified, offRegistration>>

\* `async for note_info in scanner.scan_vault()`: parser.parse_note(note),
\* then every registered processor is run on the note
scan_note ==
    /\ rpc = "scan" /\ notes_read # Notes
    /\ LET n == NoteOrder[Cardinality(notes_read) + 1]
       IN  /\ notes_read' = notes_read \cup {n}
           /\ notes_modified' = IF processors # <<>>
                                THEN notes_modified \cup {n}
                                ELSE notes_modified
    /\ UNCHANGED <<processors_config, rpc, ci, processors, offRegistration>>

scan_finished ==
    /\ rpc = "scan" /\ notes_read = Notes
    /\ rpc' = "done"
    /\ UNCHANGED <<processors_config, ci, processors, notes_read,
                   notes_modified, offRegistration>>

NextRegistration ==
    \/ create_processor
    \/ registry_returned
    \/ scan_note
    \/ scan_finished

\* ---------------------------------- VaultScanner._resolve_attachment_path
\* the places of a vault where the attachment of a note can lie: next to the
\* note, in the vault root, in the folder of Obsidian's app.json, in a folder
\* of a conventional name, or in any other directory of the vault
Places ==
    {"note", "root", "configured", "Attachments", "attachments", "Files",
     "files", "assets", "media", "elsewhere"}

\* the directories the case-insensitive search walks
SearchPlaces == {"configured", "Attachments", "attachments", "Files", "files"}

Configured(folder) == IF folder THEN <<"configured">> ELSE <<>>

\* `candidates`, in the order of the list; the attachment is a bare file name,
\* so self.vault_path / Path(attachment_path).name is the vault root again
candidates(folder) ==
    <<"note", "root">> \o Configured(folder)
        \o <<"Attachments", "attachments", "Files", "files", "root">>

\* `search_dirs`, in the order of the list
search_dirs(folder) ==
    Configured(folder) \o <<"Attachments", "attachments", "Files", "files">>

\* the first member of seq that is in S, or "None"
FirstIn(seq, S) ==
    IF \E i \in 1..Len(seq) : seq[i] \in S
    THEN seq[CHOOSE i \in 1..Len(seq) :
                 seq[i] \in S /\ \A j \in 1..(i - 1) : seq[j] \notin S]
    ELSE "None"

InitResolve ==
    /\ files \in SUBSET Places
    /\ variants \in SUBSET {"Attachments", "elsewhere"}
    /\ obsidian_attachment_folder \in BOOLEAN
    /\ obsidian_attachment_folder \/ "configured" \notin files
    /\ audio_suffix \in BOOLEAN
    /\ xpc = "candidates"
    /\ resolved = "unset"

ResolveIdle ==
    /\ files = {}
    /\ variants = {}
    /\ obsidian_attachment_folder = FALSE
    /\ audio_suffix = FALSE
    /\ xpc = "off"
    /\ resolved = "unset"

\* `for candidate in candidates`: the first that exists with an audio suffix
try_candidates ==
    /\ xpc = "candidates"
    /\ LET found == IF audio_suffix
                    THEN FirstIn(candidates(obsidian_attachment_folder), files)
                    ELSE "None"
       IN  IF found # "None"
           THEN resolved' = found /\ xpc' = "returned"
           ELSE resolved' = resolved /\ xpc' = "search"
    /\ UNCHANGED <<files, variants, obsidian_attachment_folder, audio_suffix,
                   offResolve>>

\* `for dir_name in search_dirs`: rglob under each directory that exists, the
\* name compared in lower case; then `return None`
search_directories ==
    /\ xpc = "search"
    /\ resolved' = IF audio_suffix
                   THEN FirstIn(search_dirs(obsidian_attachment_folder),
                                (files \cup variants) \cap SearchPlaces)
                   ELSE "None"
    /\ xpc' = "returned"
    /\ UNCHANGED <<files, variants, obsidian_attachment_folder, audio_suffix,
                   offResolve>>

NextResolve ==
    \/ try_candidates
    \/ search_directories

\* ---------------------------------- VoiceMemoDetector.get_voice_file_path
\* where a file named voice_filename can be, seen from the vault root
VoicePlaces ==
    {"root", "configured", "note_dir", "elsewhere", "attachments", "assets",
     "files", "media"}

NoteDir(subdir) == IF subdir THEN <<"note_dir">> ELSE <<>>

Found(hit) == IF hit = "None" THEN <<>> ELSE <<hit>>

\* a list that tries the hit of the search of the whole vault first
search_paths_hit_first(folder, subdir, hit) ==
    Found(hit) \o <<"root">> \o Configured(folder) \o NoteDir(subdir)
        \o <<"attachments", "assets", "files", "media">>

\* `search_paths`, in the order the code appends to it
search_paths(folder, subdir, hit) ==
    <<"root">> \o Configured(folder) \o NoteDir(subdir) \o Found(hit)
        \o <<"attachments", "assets", "files", "media">>

\* what vault_path.rglob(voice_filename) can yield first: any file of that
\* name in the tree, the order of a directory's entries being the file
\* system's; None when there is none (or the pattern is refused)
rglob_first(at) == IF at = {} THEN {"None"} ELSE at

InitVoicePath ==
    /\ voice_at \in SUBSET VoicePlaces
    /\ configured_attachment_folder \in BOOLEAN
    /\ note_dir \in BOOLEAN
    /\ configured_attachment_folder \/ "configured" \notin voice_at
    /\ note_dir \/ "note_dir" \notin voice_at
    /\ vault_hit = "unset"
    /\ gpc = "call"
    /\ voice_path = "unset"

VoicePathIdle ==
    /\ voice_at = {}
    /\ configured_attachment_folder = FALSE
    /\ note_dir = FALSE
    /\ vault_hit = "unset"
    /\ gpc = "off"
    /\ voice_path = "unset"

\* `for path in search_paths: if path.exists(): return path`, and
\* vault_path / voice_filename when none exists
first_existing(folder, subdir, hit, at) ==
    LET first == FirstIn(search_paths(folder, subdir, hit), at)
    IN  IF first = "None" THEN "root" ELSE first

\* the whole call: the list is built with the hit of the search in it, the
\* first path that exists is returned
get_voice_file_path ==
    /\ gpc = "call"
    /\ \E hit \in rglob_first(voice_at) :
          /\ vault_hit' = hit
          /\ voice_path' = first_existing(configured_attachment_folder,
                                          note_dir, hit, voice_at)
    /\ gpc' = "returned"
    /\ UNCHANGED <<voice_at, configured_attachment_folder, note_dir,
                   offVoicePath>>

NextVoicePath == get_voice_file_path

\* ------------- verify_voice_files_exist (V1), VaultScanner.scan_vault (V2)
\* the places a referenced file can be in; a reference with no place is a
\* missing file.  VaultScanner does not look into "elsewhere".
RefPlaces == {"attachments", "elsewhere"}

MaxRefs == 2

RefLists ==
    UNION {[1..k -> SUBSET RefPlaces] : k \in 0..MaxRefs}

Indices(seq) == [i \in 1..Len(seq) |-> i]

\* a list that keeps every embed
all_files(n, hits) == Indices(notes_with_memos[n])

\* `existing_files` of one note: the embeds whose get_voice_file_path exists.
\* The engine passes the note's name, which has no directory part.
existing_files(n, hits) ==
    LET Exists(i) ==
            first_existing(FALSE, FALSE, hits[<<n, i>>],
                           notes_with_memos[n][i]) \in notes_with_memos[n][i]
    IN  SelectSeq(Indices(notes_with_memos[n]), Exists)

RefKeys == {<<n, i>> \in Notes \X (1..MaxRefs) : i <= Len(notes_with_memos[n])}

\* what the searches of the vault can return for the embeds
Hits ==
    {h \in [RefKeys -> RefPlaces \cup {"None"}] :
        \A k \in RefKeys : h[k] \in rglob_first(notes_with_memos[k[1]][k[2]])}

\* _resolve_attachment_path of VaultScanner for an embed with an audio suffix
resolve_attachment_path(at) == FirstIn(candidates(FALSE), at)

\* `attachments` of _find_attachments: the embeds that resolve and exist
find_attachments(n) ==
    LET Resolved(i) ==
            /\ resolve_attachment_path(notes_with_memos[n][i]) # "None"
            /\ resolve_attachment_path(notes_with_memos[n][i])
                   \in notes_with_memos[n][i]
    IN  SelectSeq(Indices(notes_with_memos[n]), Resolved)

NoDict == [n \in {} |-> <<>>]

InitVerify ==
    /\ detector \in {"V1", "V2"}
    /\ notes_with_memos \in [Notes -> RefLists]
    /\ apc = "start"
    /\ verified_notes = NoDict
    /\ yielded = <<>>
    /\ scanned = 0
    /\ invoked = {}

VerifyIdle ==
    /\ detector = "off"
    /\ notes_with_memos = [n \in Notes |-> <<>>]
    /\ apc = "off"
    /\ verified_notes = NoDict
    /\ yielded = <<>>
    /\ scanned = 0
    /\ invoked = {}

\* V1: the whole call; a note is kept `if existing_files`
verify_voice_files_exist ==
    /\ detector = "V1"
    /\ apc = "start"
    /\ \E hits \in Hits :
          verified_notes' =
              [n \in {m \in Notes : /\ notes_with_memos[m] # <<>>
                                    /\ existing_files(m, hits) # <<>>}
                  |-> existing_files(n, hits)]
    /\ apc' = "verified"
    /\ UNCHANGED <<detector, notes_with_memos, yielded, scanned, invoked,
                   offVerify>>

\* V1: _process_unprocessed_recordings runs the script on an entry of
\* verified_notes
process_verified ==
    /\ detector = "V1"
    /\ apc = "verified"
    /\ \E n \in DOMAIN verified_notes :
       \E k \in 1..Len(verified_notes[n]) :
          /\ <<n, verified_notes[n][k]>> \notin invoked
          /\ invoked' = invoked \cup {<<n, verified_notes[n][k]>>}
    /\ UNCHANGED <<detector, notes_with_memos, apc, verified_notes, yielded,
                   scanned, offVerify>>

\* V2: one note of _scan_notes; a note that cannot be read has no attachments;
\* scan_vault yields it `if note_info.attachments`
scan_vault_note ==
    /\ detector = "V2"
    /\ apc = "start"
    /\ scanned < Len(NoteOrder)
    /\ scanned' = scanned + 1
    /\ \E readable \in BOOLEAN :
          LET n == NoteOrder[scanned + 1]
              attachments == IF readable THEN find_attachments(n) ELSE <<>>
          IN  yielded' = IF attachments # <<>>
                         THEN Append(yielded, [note_path |-> n,
                                               attachments |-> attachments])
                         ELSE yielded
    /\ UNCHANGED <<detector, notes_with_memos, apc, verified_notes, invoked,
                   offVerify>>

\* V2: a processor is run on a yielded note: audio_file = attachments[0]
process_yielded ==
    /\ detector = "V2"
    /\ apc = "start"
    /\ \E k \in 1..Len(yielded) :
          /\ <<yielded[k].note_path, yielded[k].attachments[1]>> \notin invoked
          /\ invoked' = invoked \cup
                 {<<yielded[k].note_path, yielded[k].attachments[1]>>}
    /\ UNCHANGED <<detector, notes_with_memos, apc, verified_notes, yielded,
                   scanned, offVerify>>

NextVerify ==
    \/ verify_voice_files_exist
    \/ process_verified
    \/ scan_vault_note
    \/ process_yielded

\* ------------------- _should_ignore_note (V1), VaultScanner._should_exclude
\* directory names of the vault; a path is a sequence of them
Dirs == {"templates", "Templates", "archive"}

MaxDepth == 2

DirPaths == UNION {[1..k -> Dirs] : k \in 0..MaxDepth}

\* glob patterns a configuration can list
Patterns == {"templates/**", "archive/**", "**/templates/**"}

\* str.lower() on a directory name
lower(d) == IF d = "Templates" THEN "templates" ELSE d

\* fnmatch.fnmatch(name, pattern) for a name of the components c: `*` matches
\* any run of characters, `/` included, and letters match case-sensitively
fnmatch(c, pattern) ==
    CASE pattern = "templates/**" -> Len(c) >= 2 /\ c[1] = "templates"
      [] pattern = "archive/**" -> Len(c) >= 2 /\ c[1] = "archive"
      [] pattern = "**/templates/**" ->
             \E i \in 2..(Len(c) - 1) : c[i] = "templates"

\* rel_path.parents below the vault root: the proper prefixes of the path
parents(c) == {SubSeq(c, 1, k) : k \in 1..(Len(c) - 1)}

\* VaultScanner._should_exclude(path) for a note in the directories d
should_exclude(d) ==
    LET rel_path == d \o <<"note.md">>
    IN  \E pattern \in exclude_patterns :
           \/ fnmatch(rel_path, pattern)
           \/ \E parent \in parents(rel_path) : fnmatch(parent, pattern)

\* VoiceMemoDetector._should_ignore_note for a note the metadata index of the
\* vault holds (the index and md_file_index come from one gather())
should_ignore_note(d) ==
    LET normalized_path == [i \in 1..Len(d) |-> lower(d[i])] \o <<"note.md">>
    IN  \/ Len(normalized_path) >= 2 /\ normalized_path[1] = "templates"
        \/ \E i \in 2..(Len(normalized_path) - 1) :
              normalized_path[i] = "templates"

InitTemplates ==
    /\ rel_filepath \in [Notes -> DirPaths]
    /\ exclude_patterns \in SUBSET Patterns
    /\ scan_engine \in {"V1", "V2"}
    /\ scan_i = 0
    /\ notes_found = {}

TemplatesIdle ==
    /\ rel_filepath = [n \in Notes |-> <<>>]
    /\ exclude_patterns = {}
    /\ scan_engine = "off"
    /\ scan_i = 0
    /\ notes_found = {}

\* V1: one note of the loop of get_notes_with_voice_memos; the note embeds a
\* recording
get_notes_with_voice_memos_note ==
    /\ scan_engine = "V1"
    /\ scan_i < Len(NoteOrder)
    /\ scan_i' = scan_i + 1
    /\ LET n == NoteOrder[scan_i + 1]
       IN  notes_found' = IF should_ignore_note(rel_filepath[n])
                          THEN notes_found
                          ELSE notes_found \cup {n}
    /\ UNCHANGED <<rel_filepath, exclude_patterns, scan_engine, offTemplates>>

\* V2: one note of _scan_notes and scan_vault; the note has an attachment
scan_vault_yield ==
    /\ scan_engine = "V2"
    /\ scan_i < Len(NoteOrder)
    /\ scan_i' = scan_i + 1
    /\ LET n == NoteOrder[scan_i + 1]
       IN  notes_found' = IF should_exclude(rel_filepath[n])
                          THEN notes_found
                          ELSE notes_found \cup {n}
    /\ UNCHANGED <<rel_filepath, exclude_patterns, scan_engine, offTemplates>>

NextTemplates ==
    \/ get_notes_with_voice_memos_note
    \/ scan_vault_yield

\* ------------- _parse_frontmatter, _serialize_frontmatter (V1),
\* ------------- FrontmatterParser._extract_frontmatter (V2)
\* A text is the sequence of its lines (str.split("\n")): the empty string is
\* <<"">>.  The lines a note is made of:
Embed == "![[rec.m4a]]"

Unclosed == "tags: [unclosed"

InvalidDate == "date: 2024-02-30"

ProcessedEntry == "processed_recordings: [rec.m4a]"

MapLines == {"title: Note", ProcessedEntry}

\* a value with template syntax, what _sanitize_template_syntax makes of the
\* line, and the line as yaml.dump writes its string value
Template == "created: {{date}}"

Placeholder == "created: __TEMPLATE_PLACEHOLDER__"

Quoted == "created: '{{date}}'"

UnclosedQuoted == "tags: '[unclosed'"

\* the processor_state key of a note that holds the records of two
\* processors, `transcribe` and `custom`, written as one line
RecordStatus == {"none", "failed", "processing", "completed"}

StateLine(own, other) ==
    "processor_state: {transcribe: " \o own \o ", custom: " \o other \o "}"

\* a processor_state without a record is no key of the mapping
StateLines ==
    {StateLine(o, q) : o \in RecordStatus, q \in RecordStatus}
        \ {StateLine("none", "none")}

\* the legacy failure fields of the V1 engine, written as one line
LegacyLine == "broken_recordings: [rec.m4a]"

\* processor_state as the line-by-line strategy reads the block the
\* StateManager wrote: every line of the block is stripped and read as a key
\* of its own, and the value of processor_state is None
StateNull == "processor_state: null"

\* the lines that hold one entry of a mapping, and the key of a line
KeyLines ==
    MapLines \cup {Placeholder, Quoted, UnclosedQuoted, LegacyLine}
        \cup StateLines

KeyOf(l) ==
    CASE l \in StateLines \cup {StateNull} -> "processor_state"
      [] l \in {Template, Placeholder, Quoted} -> "created"
      [] OTHER -> l

\* a later entry of a key replaces an earlier one
LastEntries(text) ==
    {text[i] : i \in {j \in 1..Len(text) :
         /\ text[j] # ""
         /\ \A k \in (j + 1)..Len(text) : KeyOf(text[k]) # KeyOf(text[j])}}

BodyLines == {"", "Text", Embed}

DocLines == {"---", "- item", Unclosed, InvalidDate} \cup MapLines \cup BodyLines

MaxLines == 4

Texts(L) == UNION {[1..k -> L] : k \in 1..MaxLines}

Range(seq) == {seq[i] : i \in 1..Len(seq)}

Loaded(kind, entries) == [kind |-> kind, entries |-> entries]

\* yaml.safe_load(text): a mapping, None, another value, a yaml.YAMLError (an
\* unquoted {{...}} is a mapping used as a key: "found unhashable key"), or
\* the ValueError the timestamp constructor raises for a date no calendar has
safe_load(text) ==
    LET S == Range(text) \ {""}
    IN  CASE S = {} -> Loaded("None", {})
          [] S # {} /\ S \cap {Unclosed, "---", Embed, Template} # {} ->
                 Loaded("YAMLError", {})
          [] S # {} /\ S \subseteq KeyLines ->
                 Loaded("dict", LastEntries(text))
          [] S # {} /\ S \subseteq KeyLines \cup {InvalidDate}
                 /\ InvalidDate \in S -> Loaded("ValueError", {})
          [] S = {"- item"} \/ S = {"Text"} -> Loaded("other", {})
          [] OTHER -> Loaded("YAMLError", {})

\* yaml.dump(frontmatter, default_flow_style=False): one line per key, the
\* keys sorted
Dumped(l) ==
    CASE l = Template -> Quoted
      [] l = Unclosed -> UnclosedQuoted
      [] OTHER -> l

yaml_dump(m) ==
    LET d == {Dumped(e) : e \in m}
    IN  SelectSeq(<<LegacyLine, Placeholder, Quoted, ProcessedEntry>>,
                  LAMBDA l : l \in d)
            \o (IF d \cap StateLines = {} THEN <<>>
                ELSE <<CHOOSE l \in d \cap StateLines : TRUE>>)
            \o SelectSeq(<<UnclosedQuoted, "title: Note">>, LAMBDA l : l \in d)

Returned(m, b) == [raised |-> FALSE, frontmatter |-> m, body |-> b]

Raised == [raised |-> TRUE, frontmatter |-> {}, body |-> <<"">>]

\* a parser that lets the yaml.YAMLError through
yaml_error_raised(b) == Raised

\* `except yaml.YAMLError as yaml_error: ... frontmatter = {}`
yaml_error_handled(b) == Returned({}, b)

\* StatelessStateManager._parse_frontmatter(content)
parse_frontmatter(c) ==
    LET closing == {i \in 2..Len(c) : c[i] = "---"}
    IN  IF Head(c) # "---" \/ closing = {} THEN Returned({}, c)
        ELSE LET end_idx == CHOOSE i \in closing : \A j \in closing : i <= j
                 frontmatter_text == SubSeq(c, 2, end_idx - 1)
                 rest == SubSeq(c, end_idx + 1, Len(c))
                 b == IF rest = <<>> THEN <<"">> ELSE rest
                 y == safe_load(frontmatter_text)
             IN  CASE Range(frontmatter_text) \subseteq {""} -> Returned({}, b)
                   [] y.kind = "dict" -> Returned(y.entries, b)
                   [] y.kind \in {"None", "other"} -> Returned({}, b)
                   [] y.kind = "YAMLError" -> yaml_error_handled(b)
                   \* the outer `except Exception`: `return {}, content`
                   [] y.kind = "ValueError" -> Returned({}, c)

\* StatelessStateManager._serialize_frontmatter(frontmatter, body)
serialize_frontmatter(m, b) ==
    IF m = {} THEN b
    ELSE <<"---">> \o yaml_dump(m) \o <<"---">>
             \o (IF b = <<"">> THEN <<>>
                 ELSE IF Head(b) = "" THEN Tail(b) ELSE b)

\* the lines of a block that hold a key
Keyed(raw) ==
    LastEntries(raw) \cap (KeyLines \cup {Unclosed, InvalidDate, Template})

\* FrontmatterParser._parse_yaml_line_by_line under strategy 3: _parse_value
\* keeps a value with template syntax, and a value yaml cannot parse, as a
\* string; its ValueError ends the strategy with {}
parse_yaml_line_by_line(raw) ==
    IF InvalidDate \in Keyed(raw) THEN {}
    ELSE (Keyed(raw) \ StateLines)
             \cup (IF Keyed(raw) \cap StateLines # {} THEN {StateNull} ELSE {})

\* FrontmatterParser._sanitize_template_syntax(yaml_content)
sanitize_template_syntax(raw) ==
    [i \in 1..Len(raw) |-> IF raw[i] = Template THEN Placeholder ELSE raw[i]]

Extracted(m, has, raw) ==
    [raised |-> FALSE, frontmatter |-> m, has_frontmatter |-> has,
     raw_frontmatter |-> raw]

ExtractRaised ==
    [raised |-> TRUE, frontmatter |-> {}, has_frontmatter |-> FALSE,
     raw_frontmatter |-> <<>>]

\* FrontmatterParser._parse_yaml_with_fallback(raw_yaml): strategies 1 and 2
\* catch yaml.YAMLError only; strategy 2 loads the text with every template
\* expression replaced, strategy 3 reads it line by line
parse_yaml_with_fallback(raw) ==
    LET y == safe_load(raw)
        z == safe_load(sanitize_template_syntax(raw))
    IN  CASE y.kind = "dict" -> Extracted(y.entries, TRUE, raw)
          [] y.kind \in {"None", "other"} -> Extracted({}, TRUE, raw)
          [] y.kind = "ValueError" -> ExtractRaised
          [] y.kind = "YAMLError" /\ z.kind = "dict" ->
                 Extracted(z.entries, TRUE, raw)
          [] y.kind = "YAMLError" /\ z.kind \in {"None", "other"} ->
                 Extracted({}, TRUE, raw)
          [] y.kind = "YAMLError" /\ z.kind = "ValueError" -> ExtractRaised
          [] y.kind = "YAMLError" /\ z.kind = "YAMLError" ->
                 Extracted(parse_yaml_line_by_line(raw), TRUE, raw)

\* FrontmatterParser._extract_frontmatter(content): frontmatter_pattern needs a
\* line after the closing delimiter and a line between the delimiters
extract_frontmatter(c) ==
    LET closing == {j \in 3..(Len(c) - 1) : c[j] = "---"}
    IN  IF Head(c) # "---" \/ closing = {} THEN Extracted({}, FALSE, <<>>)
        ELSE LET j == CHOOSE i \in closing : \A k \in closing : i <= k
             IN  parse_yaml_with_fallback(SubSeq(c, 2, j - 1))

NotParsed == [raised |-> FALSE]

InitParse ==
    /\ document \in Texts(DocLines)
    /\ parse_engine \in {"V1", "V2"}
    /\ ypc = "text"
    /\ parsed = NotParsed
    /\ note_processed = FALSE
    /\ frontmatter = {}
    /\ body = <<"">>
    /\ state_writes = 0

FrontmatterIdle ==
    /\ document = <<"">>
    /\ parse_engine = "off"
    /\ ypc = "off"
    /\ parsed = NotParsed
    /\ note_processed = FALSE
    /\ frontmatter = {}
    /\ body = <<"">>
    /\ state_writes = 0

\* the parser of the engine is called on the text of the note
parse_text ==
    /\ ypc = "text"
    /\ parsed' = IF parse_engine = "V1" THEN parse_frontmatter(document)
                 ELSE extract_frontmatter(document)
    /\ ypc' = "parsed"
    /\ UNCHANGED <<document, parse_engine, note_processed, frontmatter, body,
                   state_writes, offFrontmatter>>

\* the run on the note: the embed is found in the text by a regular
\* expression; run_processing gives the note up when parse_note raises
process_parsed_note ==
    /\ ypc = "parsed"
    /\ note_processed' = (Embed \in Range(document) /\ ~parsed.raised)
    /\ ypc' = "done"
    /\ UNCHANGED <<document, parse_engine, parsed, frontmatter, body,
                   state_writes, offFrontmatter>>

NextParse ==
    \/ parse_text
    \/ process_parsed_note

MaxStateWrites == 2

InitRoundTrip ==
    /\ frontmatter \in SUBSET MapLines
    /\ body \in Texts(BodyLines)
    /\ document = <<"">>
    /\ parse_engine = "V1"
    /\ ypc = "pair"
    /\ parsed = NotParsed
    /\ note_processed = FALSE
    /\ state_writes = 0

\* _serialize_frontmatter(frontmatter, body) is written to the note
serialize_pair ==
    /\ ypc = "pair"
    /\ document' = serialize_frontmatter(frontmatter, body)
    /\ ypc' = "serialized"
    /\ UNCHANGED <<parse_engine, parsed, note_processed, frontmatter, body,
                   state_writes, offFrontmatter>>

\* _parse_frontmatter(content) of what was written
parse_serialized ==
    /\ ypc = "serialized"
    /\ parsed' = parse_frontmatter(document)
    /\ ypc' = "parsed"
    /\ UNCHANGED <<document, parse_engine, note_processed, frontmatter, body,
                   state_writes, offFrontmatter>>

\* a state write (mark_recording_processed): the note is parsed, the recording
\* is put into processed_recordings, the note is serialized and written
state_write ==
    /\ ypc = "parsed"
    /\ state_writes < MaxStateWrites
    /\ LET p == parse_frontmatter(document)
           new_content ==
               serialize_frontmatter(p.frontmatter \cup {ProcessedEntry},
                                     p.body)
       IN  /\ document' = new_content
           /\ parsed' = parse_frontmatter(new_content)
    /\ state_writes' = state_writes + 1
    /\ UNCHANGED <<parse_engine, ypc, note_processed, frontmatter, body,
                   offFrontmatter>>

NextRoundTrip ==
    \/ serialize_pair
    \/ parse_serialized
    \/ state_write

\* ----------------------- the writers of the StateManager on the text of a note
\* the lines of the notes, and the longest note
NoteLines ==
    {"---", "title: Note", Template, "Text", LegacyLine,
     StateLine("failed", "completed")}

MaxNoteLines == 5

NoteTexts == UNION {[1..k -> NoteLines] : k \in 1..MaxNoteLines}

StateProcessors == {"transcribe", "custom"}

\* the status of the record of a processor in a mapping ("none": no record)
record_status(m, p) ==
    IF m \cap StateLines = {} THEN "none"
    ELSE LET l == CHOOSE x \in m \cap StateLines : TRUE
         IN  IF p = "transcribe"
             THEN CHOOSE o \in RecordStatus :
                      \E q \in RecordStatus : l = StateLine(o, q)
             ELSE CHOOSE q \in RecordStatus :
                      \E o \in RecordStatus : l = StateLine(o, q)

\* the mapping with the record of p set to s, the other record kept
with_record(m, p, s) ==
    LET l == IF p = "transcribe"
             THEN StateLine(s, record_status(m, "custom"))
             ELSE StateLine(record_status(m, "transcribe"), s)
    IN  (m \ StateLines) \cup ({l} \cap StateLines)

\* StateManager._update_content_frontmatter(content, frontmatter)
update_content_frontmatter(c, m) ==
    LET end == {i \in 2..Len(c) : c[i] = "---"}
    IN  IF Head(c) = "---" /\ Len(c) >= 2 /\ end # {}
        THEN LET end_index == CHOOSE i \in end : \A j \in end : i <= j
                 rest == SubSeq(c, end_index + 1, Len(c))
             IN  <<"---">> \o yaml_dump(m) \o <<"---">>
                     \o (IF rest = <<>> THEN <<"">> ELSE rest)
        ELSE <<"---">> \o yaml_dump(m) \o <<"---">> \o c

\* parse_note raises, or processor_state holds None and the assignment of the
\* record raises TypeError
update_raises(c) ==
    LET p == extract_frontmatter(c)
    IN  p.raised \/ StateNull \in p.frontmatter

\* StateManager._update_state_atomic(note_path, processor_name, state): the
\* note is parsed by the FrontmatterParser, the record is put into the
\* mapping it returned, and the mapping is written in place of the block
update_state_atomic(c, p, s) ==
    IF update_raises(c) THEN c
    ELSE update_content_frontmatter(
             c, with_record(extract_frontmatter(c).frontmatter, p, s))

\* get_processing_state(note_path) on the text: the processors that have a
\* record; `except Exception: return {}`
processing_state(c) ==
    IF update_raises(c) THEN {}
    ELSE {p \in StateProcessors :
             record_status(extract_frontmatter(c).frontmatter, p) # "none"}

\* cleanup_old_states(note_path, max_age_days), `stale` the processors whose
\* record has a timestamp before cutoff_time: the records to remove are
\* popped from the mapping the parser returned and the mapping is written
cleanup_old_states_text(c, stale) ==
    LET m == extract_frontmatter(c).frontmatter
        remove == {p \in processing_state(c) \cap stale :
                      record_status(m, p) \in {"completed", "failed"}}
        kept(p) == IF p \in remove THEN "none" ELSE record_status(m, p)
    IN  IF remove = {} THEN c
        ELSE update_content_frontmatter(
                 c, (m \ StateLines)
                        \cup ({StateLine(kept("transcribe"), kept("custom"))}
                                 \cap StateLines))

\* _cleanup_legacy_failure_fields(note_path, processor_name): a write only
\* when a field was removed
cleanup_legacy_failure_fields_text(c, p) ==
    LET m == extract_frontmatter(c).frontmatter
    IN  IF p = "transcribe" /\ LegacyLine \in m
        THEN update_content_frontmatter(c, m \ {LegacyLine})
        ELSE c

NoStateCall ==
    [raised |-> FALSE, name |-> "none", processor |-> "none",
     status |-> "none", stale |-> {}, updated |-> <<>>]

StateCall(name, raised, p, s, stale, updated) ==
    [raised |-> raised, name |-> name, processor |-> p, status |-> s,
     stale |-> stale, updated |-> updated]

InitUpdate ==
    /\ document \in NoteTexts
    /\ parse_engine = "V2"
    /\ ypc = "note"
    /\ parsed = NoStateCall
    /\ note_processed = FALSE
    /\ frontmatter = {}
    /\ body = <<"">>
    /\ state_writes = 0

StateCallEnds ==
    /\ state_writes' = state_writes + 1
    /\ ypc' = "called"
    /\ UNCHANGED <<parse_engine, note_processed, frontmatter, body,
                   offFrontmatter>>

\* update_processing_state(note, processor, state) with dry_run off: the
\* write of the new text may fail, and the call raises
call_update_processing_state ==
    /\ ypc = "note"
    /\ \E p \in StateProcessors : \E s \in {"processing", "failed"} :
       \E written \in BOOLEAN :
         LET raises == ~written \/ update_raises(document)
             new == IF raises THEN document
                    ELSE update_state_atomic(document, p, s)
         IN  /\ document' = new
             /\ parsed' = StateCall("update_processing_state", raises, p, s,
                                    {}, new)
    /\ StateCallEnds

\* cleanup_old_states(note, max_age_days) with dry_run off
call_cleanup_old_states ==
    /\ ypc = "note"
    /\ \E stale \in SUBSET StateProcessors : \E written \in BOOLEAN :
         LET new == cleanup_old_states_text(document, stale)
             raises == ~written /\ new # document
         IN  /\ document' = IF raises THEN document ELSE new
             /\ parsed' = StateCall("cleanup_old_states", raises, "none",
                                    "none", stale, <<>>)
    /\ StateCallEnds

\* mark_processing_complete(note, processor, result) with dry_run off: the
\* record is written, and after a successful result the legacy fields are
\* cleaned up; either write may fail, and the call raises
call_mark_processing_complete_text ==
    /\ ypc = "note"
    /\ \E p \in StateProcessors : \E success \in BOOLEAN :
       \E written \in BOOLEAN : \E cleaned \in BOOLEAN :
         LET s == IF success THEN "completed" ELSE "failed"
             raises1 == ~written \/ update_raises(document)
             updated == IF raises1 THEN document
                        ELSE update_state_atomic(document, p, s)
             new == IF raises1 \/ ~success THEN updated
                    ELSE cleanup_legacy_failure_fields_text(updated, p)
             raises2 == new # updated /\ ~cleaned
         IN  /\ document' = IF raises2 THEN updated ELSE new
             /\ parsed' = StateCall("mark_processing_complete",
                                    raises1 \/ raises2, p, s, {}, updated)
    /\ StateCallEnds

NextUpdate ==
    \/ call_update_processing_state
    \/ call_cleanup_old_states
    \/ call_mark_processing_complete_text

\* ------------------------------------ _insert_transcription_into_note
\* the embed of an attachment, and the lines of a transcription block
EmbedOf(a) == "![[" \o a \o "]]"

Header == "> **Transcript:**"

Transcripts == {"T1", "T2"}

QuoteLine(t) == "> " \o t

Attachments == {"a.m4a", "b.m4a"}

EmbedLines == {EmbedOf(a) : a \in Attachments}

\* the notes before any transcript is inserted
PlainLines == EmbedLines \cup {"", "Text"}

PlainTexts == UNION {[1..k -> PlainLines] : k \in 1..MaxNoteLines}

\* re.search(transcription_pattern, remaining_content): the first header
\* after the embed, wherever it is
existing_transcription(c, i) == {j \in (i + 1)..Len(c) : c[j] = Header}

\* the end of the lazy match: the line before a blank line or an embed, or
\* the last line of the text (the texts have no headings)
match_end(c, j) ==
    CHOOSE e \in j..Len(c) :
        /\ e = Len(c) \/ c[e + 1] = "" \/ c[e + 1] \in EmbedLines
        /\ \A k \in j..(e - 1) : c[k + 1] # "" /\ c[k + 1] \notin EmbedLines

\* transcription_block = "\n\n> **Transcript:**\n> {transcript}\n" put at the
\* end of the embed's line, or in place of the match, which begins a line
insert_transcription_into_note(c, a, t) ==
    LET matches == {i \in 1..Len(c) : c[i] = EmbedOf(a)}
    IN  IF matches = {} THEN c
        ELSE LET i == CHOOSE x \in matches : \A y \in matches : x <= y
                 found == existing_transcription(c, i)
             IN  IF found = {}
                 THEN SubSeq(c, 1, i) \o <<"", Header, QuoteLine(t), "">>
                          \o SubSeq(c, i + 1, Len(c))
                 ELSE LET j == CHOOSE x \in found : \A y \in found : x <= y
                          e == match_end(c, j)
                      IN  SubSeq(c, 1, j - 1)
                              \o <<"", "", Header, QuoteLine(t), "">>
                              \o SubSeq(c, e + 1, Len(c))

NoInsert == [raised |-> FALSE, attachment |-> "none", transcript |-> "none"]

InitInsert ==
    /\ document \in PlainTexts
    /\ parse_engine = "V2"
    /\ ypc = "insert"
    /\ parsed = NoInsert
    /\ note_processed = FALSE
    /\ frontmatter = {}
    /\ body = <<"">>
    /\ state_writes = 0

\* a processor has a transcript of an attachment of the note and writes it
\* into the note
call_insert_transcription ==
    /\ ypc = "insert"
    /\ state_writes < MaxStateWrites
    /\ \E a \in Attachments : \E t \in Transcripts :
          /\ EmbedOf(a) \in Range(document)
          /\ document' = insert_transcription_into_note(document, a, t)
          /\ parsed' = [raised |-> FALSE, attachment |-> a, transcript |-> t]
    /\ state_writes' = state_writes + 1
    /\ UNCHANGED <<parse_engine, ypc, note_processed, frontmatter, body,
                   offFrontmatter>>

NextInsert == call_insert_transcription

\* ------ StatelessStateManager: the legacy lists and the voice-memos map
VoiceMemos == {"a.m4a", "b.m4a"}

MemoStatus == {"pending", "processing", "processed", "failed", "broken"}

MaxSchemaCalls == 3

\* the frontmatter of a note; the legacy lists are kept sorted and without
\* duplicates, so each is given as the set of its members
Frontmatters ==
    [processed_recordings : SUBSET VoiceMemos,
     broken_recordings : SUBSET VoiceMemos,
     broken_recordings_info : SUBSET VoiceMemos,
     voice_memos : [VoiceMemos -> MemoStatus \cup {"absent"}],
     title : {"Note"}]

\* get_unprocessed_recordings(note_path, all_recordings) for a note that
\* embeds every recording, over the frontmatter f of the vault object:
\* get_processed_recordings and get_broken_recordings read the two lists
unprocessed_recordings(f) ==
    {r \in VoiceMemos : /\ r \notin f.processed_recordings
                        /\ r \notin f.broken_recordings}

NoSchemaCall ==
    [name |-> "none", recording |-> "none", returned |-> FALSE,
     was_broken |-> {}]

InitSchemas ==
    /\ note_fm \in Frontmatters
    /\ note_fm.broken_recordings_info \subseteq note_fm.broken_recordings
    /\ \A r \in VoiceMemos : note_fm.voice_memos[r] = "absent"
    /\ vault_fm = note_fm
    /\ schema_call = NoSchemaCall
    /\ schema_calls = 0

SchemasIdle ==
    /\ note_fm = [processed_recordings |-> {}, broken_recordings |-> {},
                  broken_recordings_info |-> {},
                  voice_memos |-> [r \in VoiceMemos |-> "absent"],
                  title |-> "absent"]
    /\ vault_fm = note_fm
    /\ schema_call = NoSchemaCall
    /\ schema_calls = 0

\* the end of every writer: the note is written, then the vault is gathered
\* again; when that raises the call returns False and the vault object is the
\* old one
SchemaWritten(new, name, r) ==
    /\ schema_calls < MaxSchemaCalls
    /\ schema_calls' = schema_calls + 1
    /\ note_fm' = new
    /\ \E reloaded \in BOOLEAN :
          /\ vault_fm' = IF reloaded THEN new ELSE vault_fm
          /\ schema_call' = [name |-> name, recording |-> r,
                             returned |-> reloaded,
                             was_broken |-> note_fm.broken_recordings]
    /\ UNCHANGED offSchemas

\* _update_voice_memo_status(note_path, voice_filename, status)
update_voice_memo_status ==
    \E r \in VoiceMemos, status \in MemoStatus :
        SchemaWritten(
            [note_fm EXCEPT
                !.voice_memos[r] = status,
                !.processed_recordings =
                    IF status = "processed" THEN @ \cup {r} ELSE @],
            "_update_voice_memo_status", r)

\* mark_recording_processed(note_path, recording_filename)
legacy_mark_processed ==
    \E r \in VoiceMemos :
        SchemaWritten([note_fm EXCEPT !.processed_recordings = @ \cup {r}],
                      "mark_recording_processed", r)

\* mark_recording_broken(note_path, recording_filename, error_message)
legacy_mark_broken ==
    \E r \in VoiceMemos, error_message \in BOOLEAN :
        SchemaWritten(
            [note_fm EXCEPT
                !.broken_recordings = @ \cup {r},
                !.broken_recordings_info =
                    IF error_message THEN @ \cup {r} ELSE @],
            "mark_recording_broken", r)

\* a clearing that removes every entry of the map
no_voice_memos(vm) == [r \in VoiceMemos |-> "absent"]

\* `if data.get("status") in ["failed", "broken"]: del voice_memos[filename]`
cleared_voice_memos(vm) ==
    [r \in VoiceMemos |->
        IF vm[r] \in {"failed", "broken"} THEN "absent" ELSE vm[r]]

\* clear_broken_recordings(note_path)
clear_broken_recordings ==
    SchemaWritten(
        [note_fm EXCEPT
            !.broken_recordings = {},
            !.broken_recordings_info = {},
            !.voice_memos = cleared_voice_memos(@)],
        "clear_broken_recordings", "none")

NextSchemas ==
    \/ update_voice_memo_status
    \/ legacy_mark_processed
    \/ legacy_mark_broken
    \/ clear_broken_recordings

\* ------------------------------------------- every writer of a note file
\* the writers that end in _write_file_atomic: _update_state_atomic,
\* _cleanup_legacy_failure_fields and cleanup_old_states of StateManager
AtomicWriters == {"StateManager"}

\* the writers that open the note itself for writing:
\* note_path.write_text(content) in _insert_transcription_into_note of
\* WhisperProcessor and CustomApiProcessor, and open(note_full_path, "w")
\* with f.write(new_content) in the four writers of StatelessStateManager
InPlaceWriters ==
    {"_insert_transcription_into_note", "mark_recording_processed",
     "mark_recording_broken", "_update_voice_memo_status",
     "clear_broken_recordings"}

InitWriter == writer \in AtomicWriters \cup InPlaceWriters

WriterIdle == writer = "none"

\* a writer of StateManager is at work: the steps of _write_file_atomic
atomic_writer_step ==
    /\ writer \in AtomicWriters
    /\ NextWrite

\* an in-place writer is called with a new content for the note
write_in_place ==
    /\ writer \in InPlaceWriters
    /\ wpc \in {"idle", "returned", "raised", "killed"}
    /\ writes < MaxWrites
    /\ writes' = writes + 1
    /\ \E c \in Contents : content' = c
    /\ before' = fs[file_path].data
    /\ wpc' = "open_w"
    /\ UNCHANGED <<fs, renamed, offWrite>>

\* open(note, "w"): the note is truncated, or the open fails
open_w ==
    /\ wpc = "open_w"
    /\ \/ /\ fs' = [fs EXCEPT ![file_path] = File(<<>>)]
          /\ wpc' = "write_w"
       \/ /\ wpc' = "raised"
          /\ UNCHANGED fs
    /\ UNCHANGED <<content, before, renamed, writes, offWrite>>

\* f.write: the next byte reaches the note, the note is complete and closed,
\* or the write fails
write_w ==
    /\ wpc = "write_w"
    /\ LET d == fs[file_path].data
       IN  \/ /\ Len(d) < Len(content)
              /\ fs' = [fs EXCEPT
                           ![file_path] = File(Append(d, content[Len(d) + 1]))]
              /\ wpc' = "write_w"
           \/ /\ Len(d) = Len(content)
              /\ wpc' = "returned"
              /\ UNCHANGED fs
           \/ /\ wpc' = "raised"
              /\ UNCHANGED fs
    /\ UNCHANGED <<content, before, renamed, writes, offWrite>>

\* the process is killed inside an in-place writer
kill_in_place ==
    /\ wpc \in {"open_w", "write_w"}
    /\ wpc' = "killed"
    /\ UNCHANGED <<fs, content, before, renamed, writes, offWrite>>

NextWriters ==
    \/ atomic_writer_step
    \/ write_in_place
    \/ open_w
    \/ write_w
    \/ kill_in_place

\* ------------------------------------------------------ specifications
EngineParked ==
    /\ engine = "off"
    /\ run = 1
    /\ pc = "off"
    /\ budget = 0
    /\ ni = 1
    /\ pi = 1
    /\ attempt = 0
    /\ inv = 0
    /\ res = "none"
    /\ task = 0
    /\ nOk = 0
    /\ nFail = 0
    /\ unrecorded = {}
    /\ finished = {}
    /\ clean = TRUE
    /\ todo = <<>>
    /\ markCalls = 0
    /\ brokenCalls = 0
    /\ eligible = 0

EngineOff == EngineParked /\ InitV1Idle /\ InitV2Idle

\* the engines (V2 and V1) over several runs
Init ==
    /\ InitEngine /\ WriteIdle /\ ConcIdle /\ MarksIdle /\ StateIdle /\ PollIdle
    /\ RegistrationIdle /\ ResolveIdle
    /\ VoicePathIdle
    /\ VerifyIdle
    /\ TemplatesIdle
    /\ FrontmatterIdle
    /\ SchemasIdle
    /\ WriterIdle

Next ==
    \/ NextV2
    \/ NextV1
    \/ NextRun
    \/ Kill

Spec == Init /\ [][Next]_vars

\* _write_file_atomic, step by step
InitW ==
    /\ EngineOff /\ InitWrite /\ ConcIdle /\ MarksIdle /\ StateIdle /\ PollIdle
    /\ RegistrationIdle /\ ResolveIdle
    /\ VoicePathIdle
    /\ VerifyIdle
    /\ TemplatesIdle
    /\ FrontmatterIdle
    /\ SchemasIdle
    /\ WriterIdle
SpecWrite == InitW /\ [][NextWrite]_vars

\* the writers of the notes as tasks of one event loop
InitC ==
    /\ EngineOff /\ WriteIdle /\ InitConc /\ MarksIdle /\ StateIdle /\ PollIdle
    /\ RegistrationIdle /\ ResolveIdle
    /\ VoicePathIdle
    /\ VerifyIdle
    /\ TemplatesIdle
    /\ FrontmatterIdle
    /\ SchemasIdle
    /\ WriterIdle
SpecConc == InitC /\ [][NextConc]_vars

\* the StatelessStateManager under any sequence of mark calls
InitM ==
    /\ EngineParked /\ InitV2Idle /\ InitMarks /\ WriteIdle /\ ConcIdle
    /\ StateIdle /\ PollIdle /\ RegistrationIdle /\ ResolveIdle
    /\ VoicePathIdle
    /\ VerifyIdle
    /\ TemplatesIdle
    /\ FrontmatterIdle
    /\ SchemasIdle
    /\ WriterIdle
SpecMarks == InitM /\ [][NextMarks]_vars

\* the StateManager under any sequence of calls
InitS ==
    /\ EngineParked /\ InitV1Idle /\ InitState /\ WriteIdle /\ ConcIdle
    /\ MarksIdle /\ PollIdle /\ RegistrationIdle /\ ResolveIdle
    /\ VoicePathIdle
    /\ VerifyIdle
    /\ TemplatesIdle
    /\ FrontmatterIdle
    /\ SchemasIdle
    /\ WriterIdle
SpecState == InitS /\ [][NextState]_vars

\* the other parts of the model at rest
AllIdle == EngineOff /\ WriteIdle /\ ConcIdle /\ MarksIdle /\ StateIdle

\* one call of _poll_task_completion; the coroutine is run until it ends
InitP == AllIdle /\ InitPoll /\ RegistrationIdle /\ ResolveIdle
    /\ VoicePathIdle
    /\ VerifyIdle
    /\ TemplatesIdle
    /\ FrontmatterIdle
    /\ SchemasIdle
    /\ WriterIdle
SpecPoll == InitP /\ [][NextPoll]_vars /\ WF_vars(NextPoll)

\* run_processing from the registration of the processors to the end of the scan
InitR == AllIdle /\ PollIdle /\ InitRegistration /\ ResolveIdle
    /\ VoicePathIdle
    /\ VerifyIdle
    /\ TemplatesIdle
    /\ FrontmatterIdle
    /\ SchemasIdle
    /\ WriterIdle
SpecRegistration == InitR /\ [][NextRegistration]_vars

\* one call of _resolve_attachment_path on any vault
InitX == AllIdle /\ PollIdle /\ RegistrationIdle /\ InitResolve
    /\ VoicePathIdle
    /\ VerifyIdle
    /\ TemplatesIdle
    /\ FrontmatterIdle
    /\ SchemasIdle
    /\ WriterIdle
SpecResolve == InitX /\ [][NextResolve]_vars

\* one call of get_voice_file_path on any vault
InitG ==
    /\ AllIdle /\ PollIdle /\ RegistrationIdle /\ ResolveIdle
    /\ InitVoicePath
    /\ VerifyIdle
    /\ TemplatesIdle
    /\ FrontmatterIdle
    /\ SchemasIdle
    /\ WriterIdle
SpecVoicePath == InitG /\ [][NextVoicePath]_vars

\* the detection of the attachments of any vault, by either engine
InitA ==
    /\ AllIdle /\ PollIdle /\ RegistrationIdle /\ ResolveIdle
    /\ VoicePathIdle
    /\ InitVerify
    /\ TemplatesIdle
    /\ FrontmatterIdle
    /\ SchemasIdle
    /\ WriterIdle
SpecVerify == InitA /\ [][NextVerify]_vars

\* the scan of any vault under any exclusion patterns, by either engine
InitT ==
    /\ AllIdle /\ PollIdle /\ RegistrationIdle /\ ResolveIdle
    /\ VoicePathIdle /\ VerifyIdle
    /\ InitTemplates
    /\ FrontmatterIdle
    /\ SchemasIdle
    /\ WriterIdle
SpecTemplates == InitT /\ [][NextTemplates]_vars

\* the other parts of the model at rest, the detectors included
RestIdle ==
    /\ AllIdle /\ PollIdle /\ RegistrationIdle /\ ResolveIdle
    /\ VoicePathIdle /\ VerifyIdle /\ TemplatesIdle

\* a note of any text is parsed and run, by either engine
InitY == RestIdle /\ InitParse
    /\ SchemasIdle
    /\ WriterIdle
SpecParse == InitY /\ [][NextParse]_vars

\* a mapping and a body are serialized, parsed, and written to again
InitZ == RestIdle /\ InitRoundTrip
    /\ SchemasIdle
    /\ WriterIdle
SpecRoundTrip == InitZ /\ [][NextRoundTrip]_vars

\* the writers of both schemas called in any order on one note
InitN == RestIdle /\ FrontmatterIdle /\ InitSchemas
    /\ WriterIdle
SpecSchemas == InitN /\ [][NextSchemas]_vars

\* any writer of the note file, step by step, with kills
InitU ==
    /\ EngineOff /\ InitWrite /\ ConcIdle /\ MarksIdle /\ StateIdle /\ PollIdle
    /\ RegistrationIdle /\ ResolveIdle /\ VoicePathIdle /\ VerifyIdle
    /\ TemplatesIdle /\ FrontmatterIdle /\ SchemasIdle
    /\ InitWriter
SpecWriters == InitU /\ [][NextWriters]_vars

\* update_processing_state called on a note of any text
\* ------------------------------------------------ the retry loops alone
\* the largest retry_attempts (V2) and max_retries (V1)
MaxAttempts == 5

\* `1.0 * (2**attempt)`, in seconds
BackoffDelay(a) == 2^a

offBackoff == <<engine, run, budget, ni, pi, task, fm, legacyFields, nOk, nFail,
                unrecorded, finished, clean, lists, cache, todo, markCalls,
                brokenCalls, eligible, wvars, cvars, mvars, svars, ppc, timeout,
                poll_interval, polls, observed, why, rvars, xvars, gvars, avars,
                tvars, yvars, nvars, uvars>>

\* one call of ProcessorRegistry.process_note or of
\* _process_single_recording; `elapsed` counts the seconds the call has slept
InitBackoff ==
    /\ engine \in {"V1", "V2"}
    /\ run = 1
    /\ pc = "call"
    /\ budget \in 0..MaxAttempts
    /\ ni = 1
    /\ pi = 1
    /\ attempt = 0
    /\ inv = 0
    /\ res = "none"
    /\ task = 0
    /\ nOk = 0
    /\ nFail = 0
    /\ unrecorded = {}
    /\ finished = {}
    /\ clean = TRUE
    /\ todo = <<>>
    /\ markCalls = 0
    /\ brokenCalls = 0
    /\ eligible = 0

\* `for attempt in range(processor.retry_attempts)`: process_with_timeout
\* returns a successful result, returns a failed result, or raises
retry_attempt ==
    /\ engine = "V2" /\ pc = "call"
    /\ attempt < budget
    /\ inv' = inv + 1
    /\ \E outcome \in {"ok", "fail", "raise"} :
         /\ res' = outcome
         /\ pc' = IF outcome = "ok" THEN "done" ELSE "wait"
    /\ UNCHANGED <<attempt, elapsed, offBackoff>>

\* `if attempt < processor.retry_attempts - 1: await asyncio.sleep(...)`, in
\* the body and in the except branch, and the next iteration
retry_sleep ==
    /\ engine = "V2" /\ pc = "wait"
    /\ elapsed' = IF attempt < budget - 1
                  THEN elapsed + BackoffDelay(attempt) ELSE elapsed
    /\ attempt' = attempt + 1
    /\ pc' = "call"
    /\ UNCHANGED <<inv, res, offBackoff>>

\* `for attempt in range(max_retries)`: the script succeeds and the mark is
\* written, the script succeeds and the mark fails (return False), the script
\* fails, or an exception is raised (return False on the final attempt)
single_recording_attempt ==
    /\ engine = "V1" /\ pc = "call"
    /\ attempt < budget
    /\ inv' = inv + 1
    /\ \E outcome \in {"ok", "unmarked", "fail", "raise"} :
         /\ res' = outcome
         /\ pc' = IF outcome \in {"ok", "unmarked"} THEN "done"
                  ELSE IF outcome = "raise" /\ ~(attempt < budget - 1)
                  THEN "done" ELSE "wait"
    /\ UNCHANGED <<attempt, elapsed, offBackoff>>

\* `if attempt < max_retries - 1: time.sleep(1)`, and the next iteration
single_recording_sleep ==
    /\ engine = "V1" /\ pc = "wait"
    /\ elapsed' = IF attempt < budget - 1 THEN elapsed + 1 ELSE elapsed
    /\ attempt' = attempt + 1
    /\ pc' = "call"
    /\ UNCHANGED <<inv, res, offBackoff>>

\* the loop has ended: the failed result of V2, mark_recording_broken of V1
retries_exhausted ==
    /\ pc = "call"
    /\ ~(attempt < budget)
    /\ res' = "exhausted"
    /\ pc' = "done"
    /\ UNCHANGED <<attempt, inv, elapsed, offBackoff>>

NextBackoff ==
    \/ retry_attempt
    \/ retry_sleep
    \/ single_recording_attempt
    \/ single_recording_sleep
    \/ retries_exhausted

InitB ==
    /\ InitBackoff /\ InitV1Idle /\ InitV2Idle
    /\ WriteIdle /\ ConcIdle /\ MarksIdle /\ StateIdle /\ PollIdle
    /\ RegistrationIdle /\ ResolveIdle
    /\ VoicePathIdle
    /\ VerifyIdle
    /\ TemplatesIdle
    /\ FrontmatterIdle
    /\ SchemasIdle
    /\ WriterIdle

SpecBackoff == InitB /\ [][NextBackoff]_vars

\* one run of either engine, with and without dry_run, or the calls of a
\* client on a StateManager with dry_run
InitEngineOnce ==
    /\ InitEngine
    /\ budget = 1
    /\ dry_run \in BOOLEAN
    /\ op = NoCall
    /\ reset_done = {}

InitD ==
    /\ \/ InitEngineOnce
       \/ EngineParked /\ InitV1Idle /\ InitState /\ dry_run
    /\ WriteIdle /\ ConcIdle /\ MarksIdle /\ PollIdle /\ RegistrationIdle
    /\ ResolveIdle
    /\ VoicePathIdle
    /\ VerifyIdle
    /\ TemplatesIdle
    /\ FrontmatterIdle
    /\ SchemasIdle
    /\ WriterIdle

\* the calls a client makes on a StateManager while no engine runs
ClientCalls == engine = "off" /\ NextState

NextDryRun ==
    \/ NextV2
    \/ V2WouldProcess
    \/ NextV1
    \/ V1DryRun
    \/ ClientCalls

SpecDryRun == InitD /\ [][NextDryRun]_vars

InitK == RestIdle /\ InitUpdate
    /\ SchemasIdle
    /\ WriterIdle
SpecUpdate == InitK /\ [][NextUpdate]_vars

\* transcripts are inserted into a note of any text, one after another
InitI == RestIdle /\ InitInsert
    /\ SchemasIdle
    /\ WriterIdle
SpecInsert == InitI /\ [][NextInsert]_vars

\* ================================================================ claims

\* C2: should_process(note, processor) is true if and only if the note has
\* no record for the processor or the record's status is pending or failed;
\* it is false for completed, processing, skipped and broken.
C2_ShouldProcessIffPendingOrFailed ==
    engine = "V2" =>
        \A n \in Notes, p \in RecordKeys :
            should_process(n, p) <=>
                fm[n][p].status \in {"none", "pending", "failed"}

\* C1: in a run after the first, on a vault nothing else modifies and with
\* an operation that always succeeds (no failed attempt, no failed state
\* write and no kill so far), the operation is not invoked, and no completed
\* record (V2) and no processed_recordings list (V1) changes.
C1_SecondRunIdempotent ==
    [][(run >= 2 /\ clean') =>
          /\ inv' = 0
          /\ \A n \in Notes, p \in RecordKeys :
                 fm[n][p].status = "completed" => fm'[n][p] = fm[n][p]
          /\ \A n \in Notes : lists'[n].processed = lists[n].processed]_vars

\* C3 (as amended): one call never invokes the operation more than N times;
\* when every attempt failed it invoked it exactly N times and reports
\* failure; when attempt k+1 succeeded after k < N failures it invoked it
\* exactly k+1 times, and it reports success -- in V1 provided
\* mark_recording_processed succeeded: then the recording is in
\* processed_recordings; if that state write failed the call reports failure.
C3_RetryBound ==
    /\ inv <= budget
    /\ (engine = "V2" /\ pc = "complete") =>
          IF res = "ok"
          THEN inv = attempt + 1 /\ attempt < budget
          ELSE inv = budget /\ attempt = budget
    /\ (engine = "V1" /\ pc = "return") =>
          IF markCalls > 0
          THEN /\ inv = attempt + 1 /\ attempt < budget
               /\ res = "ok" <=> V1Key \notin unrecorded
               /\ res = "ok" => InSeq(CurRec, lists[CurNote].processed)
          ELSE inv = budget /\ attempt = budget /\ res = "fail"

\* C3 witness: a V1 call that succeeded on its second attempt or later
C3_Witness ==
    engine = "V1" /\ pc = "return" /\ res = "ok" /\ attempt >= 1

\* C3 as stated: whenever an attempt of the call succeeded, the call reports
\* success (V1: the recording is marked processed and True is returned).
C3_Original ==
    (engine = "V1" /\ pc = "return" /\ markCalls > 0) =>
        res = "ok" /\ InSeq(CurRec, lists[CurNote].processed)

\* C4: once the retry budget of an attachment was exhausted in a run, the
\* attachment carries a persisted broken/failed record (V1: unless the write
\* of that record itself failed), and it is not eligible in a later run.
C4_TerminalAfterExhaustion ==
    /\ (engine = "V1" /\ pc = "return" /\ markCalls = 0 /\ budget > 0) =>
          InSeq(CurRec, lists[CurNote].broken) \/ brokenCalls = 1
    /\ engine = "V2" =>
          \A n \in Notes :
              \A i \in 1..Len(Registry) :
                  (fm[n][Registry[i]].status = "failed"
                   /\ fm[n][Registry[i]].ts >= 1
                   /\ fm[n][Registry[i]].ts < run)
                  => ~should_process(n, Registry[i])

\* C7: once the remote service has returned a task id, the id is in the
\* note's record before the first status poll.
C7_TaskIdPersistedBeforePoll ==
    (engine = "V2" /\ pc = "poll") => fm[CurNote][CurProc].task_id = task

\* C8: every status change a V2 run persists is {none, pending, failed} ->
\* processing, processing -> completed or processing -> failed.
C8_StateMachineConformance ==
    [][engine = "V2" =>
          \A n \in Notes, p \in RecordKeys :
              fm'[n][p].status # fm[n][p].status =>
                  \/ /\ fm[n][p].status \in {"none", "pending", "failed"}
                     /\ fm'[n][p].status = "processing"
                  \/ /\ fm[n][p].status = "processing"
                     /\ fm'[n][p].status \in {"completed", "failed"}]_vars

\* C9: when the run has ended, every attachment whose operation succeeded
\* but whose state write failed has been counted in the failed count.
C9_StateWriteFailureCounted ==
    pc = "done" => nFail >= Cardinality(unrecorded)

C6_NoInterleavedReadModifyWrite ==
    \A t \in Tasks : seen[t] # -1 => seen[t] = ver[top[t].note]

\* C6 witness: a state update has read a note that was written before, while
\* a transcript insertion into the same note is suspended in its operation
C6_Witness ==
    \E t, u \in Tasks :
        /\ t # u /\ top[t].note = top[u].note
        /\ top[t].kind = "update" /\ tpc[t] = "write"
        /\ top[u].kind = "insert" /\ tpc[u] = "read"
        /\ ver[top[t].note] >= 1

\* C11: when a run has ended, newly_processed + failed_processing (V2: the
\* successful and failed results of the summary) is the number of
\* attachments that were eligible when the run started: every one of them
\* was attempted and counted once, whatever failed or raised before it.
C11_EveryEligibleCounted ==
    pc = "done" => nOk + nFail = eligible

\* the place of x in s
Pos(x, s) == CHOOSE i \in 1..Len(s) : s[i] = x

\* u holds members of all, each once, in the order of all
InOriginalOrder(u, all) ==
    /\ \A i \in 1..Len(u) : InSeq(u[i], all)
    /\ \A i, j \in 1..Len(u) : i < j => Pos(u[i], all) < Pos(u[j], all)

\* u is all without the members of the two lists of l
ExactlyTheUnlisted(u, all, l) ==
    /\ InOriginalOrder(u, all)
    /\ \A i \in 1..Len(all) :
         InSeq(all[i], u) <=> (~InSeq(all[i], l.processed) /\ ~InSeq(all[i], l.broken))

\* C12 (as the code has it): get_unprocessed_recordings(note, all_recordings)
\* returns exactly the elements of all_recordings, in their original order,
\* that are in neither the processed_recordings nor the broken_recordings
\* list that the connected vault object holds for the note, and a recording
\* whose mark_recording_processed or mark_recording_broken call returned True
\* is never returned for that note afterwards.
C12_UnprocessedExcludesMarked ==
    \A n \in Notes :
        LET u == get_unprocessed_recordings(n, Recordings[n])
        IN  /\ ExactlyTheUnlisted(u, Recordings[n], cache[n])
            /\ \A e \in marked : e[2] = n => ~InSeq(e[3], u)

\* a recording was marked broken with success and is no longer returned
\* while the other recording of the note still is
C12_Witness ==
    /\ \E e \in marked : e[1] = "broken" /\ e[2] = "n1"
    /\ Len(get_unprocessed_recordings("n1", Recordings["n1"])) = 1

\* C12 (as the spec states it): the result is all_recordings without the
\* members of the processed_recordings and broken_recordings lists of the
\* note itself.
C12_Original ==
    \A n \in Notes :
        ExactlyTheUnlisted(get_unprocessed_recordings(n, Recordings[n]),
                           Recordings[n], lists[n])

\* C13: after any sequence of mark_recording_processed and
\* mark_recording_broken calls on a note, repeated calls with one filename
\* included, each filename occurs at most once in processed_recordings and at
\* most once in broken_recordings, both lists are sorted, and
\* broken_recordings_info holds at most one entry per filename, that of the
\* latest error.
C13_OneRecordPerAttachment ==
    \A n \in Notes :
        /\ NoDup(lists[n].processed)
        /\ NoDup(lists[n].broken)
        /\ Sorted(lists[n].processed) = lists[n].processed
        /\ Sorted(lists[n].broken) = lists[n].broken
        /\ \A a, b \in lists[n].info : a[1] = b[1] => a = b
        /\ \A e \in marked :
             (e[1] = "broken" /\ e[2] = n /\ e[4] > 0) =>
                 \E a \in lists[n].info : a[1] = e[3] /\ a[2] >= e[4]

\* two calls with one filename returned True, and the note has a filename
\* in both lists
C13_Witness ==
    /\ repeated
    /\ \E e \in marked : e[1] = "broken" /\ e[4] > 1
    /\ \E n \in Notes : Len(lists[n].processed) = 2 /\ Len(lists[n].broken) >= 1

\* C14: once a (note, processor) record is completed, no automatic run and no
\* maintenance operation of StateManager changes or removes it or makes
\* should_process(note, processor) true again; only reset_processor_state of
\* that record does.
C14_CompletedIsTerminal ==
    [][\A n \in Notes : \A i \in 1..Len(Registry) :
          (/\ fm[n][Registry[i]].status = "completed"
           /\ op' # <<"reset_processor_state", n, Registry[i]>>)
          => /\ fm'[n][Registry[i]] = fm[n][Registry[i]]
             /\ ~should_process(n, Registry[i])']_vars

\* C15 (as the code has it): after reset_processor_state(note, processor) of
\* a StateManager without dry_run returned, whatever the previous status of
\* the record (completed included), the status is pending and
\* should_process(note, processor) is true; a following successful run of the
\* processor with mark_processing_complete makes it completed again.
C15_ResetReenablesProcessing ==
    [][\A n \in Notes : \A i \in 1..Len(Registry) :
          /\ (/\ op' = <<"reset_processor_state", n, Registry[i]>>
              /\ res' = "ok" /\ ~dry_run)
             => /\ fm'[n][Registry[i]].status = "pending"
                /\ should_process(n, Registry[i])'
          /\ (/\ op' = <<"mark_processing_complete", n, Registry[i]>>
              /\ res' = "ok" /\ ~dry_run)
             => fm'[n][Registry[i]].status = "completed"]_vars

\* a completed record was reset, the processor ran again with success and
\* the record is completed again
C15_Witness ==
    /\ op = <<"mark_processing_complete", "n2", "transcribe">>
    /\ res = "ok"
    /\ <<"n2", "transcribe">> \in reset_done
    /\ fm["n2"]["transcribe"].status = "completed"

\* C15 (as the spec states it): after reset_processor_state(note, processor)
\* returned the status is pending and should_process(note, processor) is
\* true, for every StateManager.
C15_Original ==
    [][\A n \in Notes : \A i \in 1..Len(Registry) :
          (op' = <<"reset_processor_state", n, Registry[i]>> /\ res' = "ok")
          => /\ fm'[n][Registry[i]].status = "pending"
             /\ should_process(n, Registry[i])']_vars

\* the outcome record of attachment k is in the note
Recorded(k) ==
    IF engine = "V2"
    THEN /\ fm[k[1]][k[2]].status \in {"completed", "failed"}
         /\ fm[k[1]][k[2]].ts = run
    ELSE \/ InSeq(k[2], lists[k[1]].processed)
         \/ InSeq(k[2], lists[k[1]].broken)

\* C16: when the operation is invoked for an attachment, the outcome record
\* of every attachment the run finished before (V2: completed/failed record
\* of (note, processor); V1: processed or broken entry of the recording) is
\* in the note.
C16_PersistBeforeProceeding ==
    pc \in {"exec", "submit"} => \A k \in finished : Recorded(k)

\* C17: an attempt that exceeded the timeout of the operation
\* (process_with_timeout, run_script) was the only invocation of its attempt
\* and is followed by what follows a failed attempt: in V2 the next value of
\* `attempt` with nothing returned or written, in V1 `continue` (and so the
\* broken mark when the attempt was the final one), never the exception
\* branch of the retry loop.
C17_TimeoutCountsAsFailure ==
    [][(pc = "timeout" /\ run' = run) =>
          /\ inv = attempt + 1
          /\ inv' = inv /\ res' = res /\ fm' = fm /\ lists' = lists
          /\ nOk' = nOk /\ nFail' = nFail
          /\ IF engine = "V2"
             THEN pc' = "call" /\ attempt' = attempt + 1
             ELSE pc' = "continue" /\ attempt' = attempt]_vars

\* the final attempt of a V1 call with two attempts has timed out
C17_Witness ==
    /\ engine = "V1" /\ pc = "timeout"
    /\ budget = 2 /\ attempt = 1

\* _poll_task_completion has ended
PollEnded == ppc \in {"returned", "raised"}

\* C18 (as the code has it): for every sequence of remote responses,
\* _poll_task_completion eventually returns the result after observing a
\* completed status, or raises: after observing a failed status or a 404,
\* once the timeout has elapsed, or when the result of a completed task
\* cannot be fetched. It never polls forever and never returns a result
\* without having observed a completed status.
C18_PollingEnds ==
    /\ <>PollEnded
    /\ [](ppc = "returned" => observed \in CompletedStatuses)
    /\ [](ppc = "raised" =>
            \/ why = "Transcription failed" /\ observed \in FailedStatuses
            \/ why = "not found" /\ observed = "http404"
            \/ why = "timed out" /\ elapsed >= timeout
            \/ why = "result" /\ observed \in CompletedStatuses)

\* the timeout has elapsed after several polls that found the task pending
C18_Witness ==
    /\ ppc = "raised" /\ why = "timed out"
    /\ polls >= 3 /\ observed \in PendingStatuses

\* C18 (as the spec states it): when _poll_task_completion raises, it has
\* observed a failed status or a 404, or the timeout has elapsed.
C18_Original ==
    ppc = "raised" =>
        \/ observed \in FailedStatuses
        \/ observed = "http404"
        \/ elapsed >= timeout

\* an enabled item of the configuration has an unknown type or lacks its
\* required field
ConfigurationError ==
    \E i \in 1..Len(ConfigNames) :
        processors_config[i].enabled /\ CreateRaises(processors_config[i])

\* C19: if an enabled operation of the configuration has an unknown type or
\* lacks a required field, the run stops at the registration: no note is
\* read (scanned) or modified in that run.
C19_FailFastOnConfigurationError ==
    ConfigurationError => notes_read = {} /\ notes_modified = {}

\* the order of resolution the specification gives: the note's directory, the
\* vault root, the configured attachment folder, the conventional folders
ResolutionOrder ==
    <<"note", "root", "configured", "Attachments", "attachments", "Files",
      "files", "assets", "media">>

\* C20: _resolve_attachment_path returns the first candidate that exists and
\* has an accepted extension, in the order: the note's directory, the vault
\* root, the configured attachment folder, the conventional folders
\* (Attachments, attachments, Files, files, assets, media), and last a file
\* of that name, case ignored, anywhere in the vault tree; it returns None
\* when there is no such file.
C20_ResolutionOrder ==
    xpc = "returned" =>
        IF ~audio_suffix \/ files \cup variants = {}
        THEN resolved = "None"
        ELSE IF FirstIn(ResolutionOrder, files) # "None"
        THEN resolved = FirstIn(ResolutionOrder, files)
        ELSE resolved \in files \cup variants

\* C21: get_voice_file_path returns a path that exists whenever a file of that
\* name is in the vault root, the configured folder, the note's directory or
\* anywhere else in the tree (the conventional folders are part of the tree);
\* the returned path is in the earliest of these places that holds such a
\* file; when no place holds one it returns vault_root/filename, which does
\* not exist.  The call has no path on which it raises.
PlaceRank(p) ==
    CASE p = "root" -> 1
      [] p = "configured" -> 2
      [] p = "note_dir" -> 3
      [] OTHER -> 4

FileExists(n, i) == notes_with_memos[n][i] # {}

IsExistingOf(n, kept) ==
    /\ \A k \in 1..Len(kept) : kept[k] \in 1..Len(notes_with_memos[n])
                                  /\ FileExists(n, kept[k])
    /\ \A i \in 1..Len(notes_with_memos[n]) :
          FileExists(n, i) => \E k \in 1..Len(kept) : kept[k] = i
    /\ \A j, k \in 1..Len(kept) : j < k => kept[j] < kept[k]

InTemplates(d) == \E i \in 1..Len(d) : lower(d[i]) = "templates"

C23_TemplatesNeverProcessed ==
    \A n \in notes_found : ~InTemplates(rel_filepath[n])

\* the same for the V1 detector alone
C23_TemplatesNeverProcessedV1 ==
    scan_engine = "V1" => C23_TemplatesNeverProcessed

\* C24: parsing never raises: for every text, _parse_frontmatter (V1) and
\* _extract_frontmatter (V2) return a mapping without raising, and a note that
\* embeds a recording is processed by the run whatever its frontmatter is.
C24_ParsingNeverRaises ==
    /\ ypc \in {"parsed", "done"} => ~parsed.raised
    /\ ypc = "done" /\ Embed \in Range(document) => note_processed

\* the same for the V1 parser alone
C24_ParsingNeverRaisesV1 ==
    parse_engine = "V1" => C24_ParsingNeverRaises

\* C25: for a note whose frontmatter block holds the malformed line
\* `tags: [unclosed` and whose body holds an embed, no parser raises and the
\* run processes the attachment; _parse_frontmatter (V1) returns an empty
\* mapping and the whole body; _extract_frontmatter (V2) reports a frontmatter
\* and returns the keyed lines of the block it could recover line by line, the
\* malformed one among them, or an empty mapping.
Closing == {j \in 2..Len(document) : document[j] = "---"}

FirstClosing == CHOOSE j \in Closing : \A k \in Closing : j <= k

Block == SubSeq(document, 2, FirstClosing - 1)

AfterBlock == SubSeq(document, FirstClosing + 1, Len(document))

MalformedScenario ==
    /\ Head(document) = "---"
    /\ Closing # {}
    /\ Unclosed \in Range(Block)
    /\ Embed \in Range(AfterBlock)

C25_MalformedFrontmatter ==
    ypc = "done" /\ MalformedScenario =>
        /\ ~parsed.raised
        /\ note_processed
        /\ parse_engine = "V1" =>
              parsed.frontmatter = {} /\ parsed.body = AfterBlock
        /\ parse_engine = "V2" =>
              /\ parsed.has_frontmatter
              /\ parsed.frontmatter \in {{}, Keyed(Block)}

\* V2 has parsed such a note and has recovered the malformed line as an entry
C25_Witness ==
    /\ ypc = "done"
    /\ MalformedScenario
    /\ parse_engine = "V2"
    /\ parsed.frontmatter = {Unclosed}
    /\ note_processed

\* the statement as the specification has it: the mapping is empty
C25_Original ==
    ypc = "done" /\ MalformedScenario =>
        /\ parsed.frontmatter = {}
        /\ parse_engine = "V1" => parsed.body = AfterBlock
        /\ note_processed

\* C26: round trip: for every mapping m the system produces and every body b,
\* _parse_frontmatter(_serialize_frontmatter(m, b)) = (m, b); and after any
\* number of state writes the body of the note is still b.
C26_RoundTrip ==
    ypc = "parsed" =>
        /\ state_writes = 0 => parsed.frontmatter = frontmatter
        /\ parsed.body = body

\* the round trip of the mapping alone
C26_RoundTripOfMapping ==
    ypc = "parsed" /\ state_writes = 0 => parsed.frontmatter = frontmatter

\* the round trip of a body that does not begin with an empty line
C26_RoundTripOfPlainBody ==
    ypc = "parsed" /\ Head(body) # "" => parsed.body = body

\* C27: where the legacy lists and the voice-memos map coexist, a recording
\* recorded as processed, failed or broken in either schema is never returned
\* by get_unprocessed_recordings (the vault object being up to date), and a
\* recording whose status in the map is processed is in processed_recordings.
RecordedDone(f, r) ==
    \/ r \in f.processed_recordings
    \/ r \in f.broken_recordings
    \/ f.voice_memos[r] \in {"processed", "failed", "broken"}

C27_ReadersReconcileSchemas ==
    /\ vault_fm = note_fm =>
          \A r \in VoiceMemos :
              RecordedDone(vault_fm, r) =>
                  r \notin unprocessed_recordings(vault_fm)
    /\ \A r \in VoiceMemos :
          note_fm.voice_memos[r] = "processed" =>
              r \in note_fm.processed_recordings

\* the part about the writer: a status of processed in the map is in the
\* legacy list too
C27_NestedProcessedIsListed ==
    \A r \in VoiceMemos :
        note_fm.voice_memos[r] = "processed" =>
            r \in note_fm.processed_recordings

\* the part about the writer: a write through the map leaves the legacy lists
\* as they were, but for the recording it adds to processed_recordings
C27_NestedWriteKeepsLists ==
    [][schema_call'.name = "_update_voice_memo_status"
         /\ schema_calls' # schema_calls =>
            /\ note_fm.processed_recordings
                   \subseteq note_fm'.processed_recordings
            /\ note_fm'.broken_recordings = note_fm.broken_recordings
            /\ note_fm'.broken_recordings_info
                   = note_fm.broken_recordings_info]_vars

\* C28: clear_broken_recordings empties broken_recordings and
\* broken_recordings_info and removes exactly the entries of the voice-memos
\* map whose status is failed or broken; processed_recordings, every other
\* entry of the map and every other key stay as they were; once it has
\* returned True, every recording that was in broken_recordings and is not in
\* processed_recordings is returned by get_unprocessed_recordings again.
ClearStep ==
    /\ schema_calls' # schema_calls
    /\ schema_call'.name = "clear_broken_recordings"

C29_RenameIsSoleCommitPoint ==
    wpc # "idle" =>
        \/ fs[file_path] = File(before)
        \/ fs[file_path] = File(content)

\* the same for the writers of StateManager alone
C29_RenameIsSoleCommitPointV2State ==
    writer \in AtomicWriters => C29_RenameIsSoleCommitPoint

\* C30: the V1 engine calls mark_recording_broken only when the call has
\* run the script max_retries times and no run succeeded: never while attempts
\* remain, never after a successful run, that is never after a call of
\* mark_recording_processed, whatever that call returned.
C30_BrokenOnlyAfterExhaustion ==
    engine = "V1" /\ (pc = "markbroken" \/ brokenCalls > 0) =>
        /\ attempt = budget
        /\ inv = budget
        /\ markCalls = 0
        /\ V1Key \notin unrecorded
        /\ brokenCalls <= 1

\* a recording was marked broken after two failed runs of the script
C30_Witness ==
    /\ engine = "V1"
    /\ pc = "return"
    /\ brokenCalls = 1
    /\ budget = 2
    /\ inv = 2
    /\ res = "fail"

\* C31: no record is stuck in `processing`: when a run of the V2 engine has
\* ended, a record of a registered processor that says `processing` (written
\* by this run, or left by an earlier run that was killed) is one the next
\* run takes up again, so that it can reach completed or failed.
C31_NoRecordStuckInProcessing ==
    engine = "V2" /\ pc = "done" =>
        \A n \in Notes : \A i \in 1..Len(Registry) :
            fm[n][Registry[i]].status = "processing" =>
                should_process(n, Registry[i])

\* what should_process answers for p on a note that holds the record of p
\* and no other record
should_process_alone(n, p) ==
    LET s == fm[n][p].status
    IN  IF s = "none" \/ s \notin ProcessingStatus
        THEN TRUE
        ELSE s \in {"pending", "failed"}

\* C32: should_process(note, p) depends on the record of p alone: it is what
\* it would be on a note holding only that record, whatever the records of
\* the other processors of the note are; a completed p stays ineligible.
C32_RecordIsolation ==
    \A n \in Notes : \A p \in RecordKeys :
        /\ should_process(n, p) = should_process_alone(n, p)
        /\ fm[n][p].status = "completed" => ~should_process(n, p)

\* the frontmatter block of a text and the body after it, as the note shows
\* them: the lines between a first line `---` and the next line `---`
HasBlock(c) == Len(c) >= 2 /\ Head(c) = "---" /\ \E j \in 2..Len(c) : c[j] = "---"

BlockEnd(c) == CHOOSE j \in 2..Len(c) : c[j] = "---" /\ \A k \in 2..(j - 1) : c[k] # "---"

BlockOf(c) == IF HasBlock(c) THEN SubSeq(c, 2, BlockEnd(c) - 1) ELSE <<>>

BodyOf(c) ==
    IF ~HasBlock(c) THEN c
    ELSE IF BlockEnd(c) = Len(c) THEN <<"">>
    ELSE SubSeq(c, BlockEnd(c) + 1, Len(c))

\* the keys of the block other than processor_state, each with its value
OtherKeys(c) ==
    {Dumped(l) : l \in {x \in LastEntries(BlockOf(c)) :
                           x \in (KeyLines \cup {Template}) \ StateLines}}

\* the record of a processor in the block of a text
RecordIn(c, p) == record_status(LastEntries(BlockOf(c)) \cap StateLines, p)

\* C33: a call of update_processing_state that returns leaves the record of
\* the processor with the new status, and leaves the record of the other
\* processor, every other key of the frontmatter with its value, and the body
\* after the frontmatter as they were; a call that raises leaves the note.
C33_UpdateChangesOwnRecordOnly ==
    [][parsed'.name = "update_processing_state" /\ parsed.name = "none" =>
          IF parsed'.raised THEN document' = document
          ELSE /\ \A p \in StateProcessors :
                     RecordIn(document', p) =
                         IF p = parsed'.processor THEN parsed'.status
                         ELSE RecordIn(document, p)
               /\ OtherKeys(document') = OtherKeys(document)
               /\ BodyOf(document') = BodyOf(document)]_vars

\* C34: when a processor has been run on a note the scan yielded, so that the
\* record of the note can become completed, the operation has been invoked on
\* every attachment of the note, not on the first one alone.
C34_EveryAttachmentProcessed ==
    detector = "V2" =>
        \A k \in 1..Len(yielded) :
            <<yielded[k].note_path, yielded[k].attachments[1]>> \in invoked =>
                \A j \in 1..Len(yielded[k].attachments) :
                    <<yielded[k].note_path, yielded[k].attachments[j]>>
                        \in invoked

\* the transcripts of the blocks that belong to an attachment: the quoted
\* lines after a header between the first embed of the attachment and the
\* next embed
FirstEmbed(c, a) ==
    CHOOSE i \in 1..Len(c) : c[i] = EmbedOf(a) /\ \A k \in 1..(i - 1) : c[k] # EmbedOf(a)

OwnLines(c, a) ==
    {j \in (FirstEmbed(c, a) + 1)..Len(c) :
        \A k \in (FirstEmbed(c, a) + 1)..j : c[k] \notin EmbedLines}

OwnBlocks(c, a) ==
    IF EmbedOf(a) \notin Range(c) THEN {}
    ELSE {<<j - FirstEmbed(c, a), c[j]>> : j \in {k \in OwnLines(c, a) :
              k > 1 /\ c[k - 1] = Header}}

OwnTranscripts(c, a) == {b[2] : b \in OwnBlocks(c, a)}

\* C35: after a call of _insert_transcription_into_note for an attachment the
\* note embeds, the attachment has one transcript block, with the new text,
\* after its first embed; the blocks of the other attachments are what and
\* where they were; and the same call made again leaves the note as it is.
C35_InsertionTargetsOwnAttachment ==
    [][state_writes' # state_writes =>
          LET a == parsed'.attachment
              t == parsed'.transcript
          IN  /\ OwnTranscripts(document', a) = {QuoteLine(t)}
              /\ \A b \in Attachments \ {a} :
                    OwnTranscripts(document', b) = OwnTranscripts(document, b)
              /\ insert_transcription_into_note(document', a, t) = document']_vars

\* C36: whatever retry_attempts the validation accepts, 0 included, when
\* process_note returns a failure result, and a failed record is about to be
\* or has been written for it, the processor has been invoked at least once.
C36_AttemptedBeforeFailure ==
    (engine = "V2" /\ pc \in {"complete", "append"} /\ res = "fail") => inv >= 1

\* C37: a call of cleanup_old_states removes a record only if the record is
\* older than the cutoff and says completed or failed, and leaves the other
\* records, every other key of the frontmatter with its value, and the body as
\* they were.
C37_CleanupRemovesOnlyStaleFinished ==
    [][parsed'.name = "cleanup_old_states" /\ parsed.name = "none" =>
          /\ \A p \in StateProcessors :
                \/ RecordIn(document', p) = RecordIn(document, p)
                \/ /\ RecordIn(document', p) = "none"
                   /\ p \in parsed'.stale
                   /\ RecordIn(document, p) \in {"completed", "failed"}
          /\ OtherKeys(document') = OtherKeys(document)
          /\ BodyOf(document') = BodyOf(document)]_vars

HasLegacy(c) == LegacyLine \in LastEntries(BlockOf(c))

\* C38: a call of mark_processing_complete that returns has removed the
\* legacy failure fields if and only if the result is successful and the
\* processor is `transcribe`: after a successful result of transcribe the
\* note has none, after a failed result or for another processor the note has
\* them exactly if it had them; and the cleanup leaves the records, the
\* remaining keys and the body as the record update wrote them.
C38_LegacyCleanupOnTranscribeSuccess ==
    [][parsed'.name = "mark_processing_complete" /\ parsed.name = "none"
         /\ ~parsed'.raised =>
          /\ IF parsed'.status = "completed" /\ parsed'.processor = "transcribe"
             THEN ~HasLegacy(document')
             ELSE HasLegacy(document') = HasLegacy(document)
          /\ \A p \in StateProcessors :
                RecordIn(document', p) = RecordIn(parsed'.updated, p)
          /\ OtherKeys(document') \ {LegacyLine}
                 = OtherKeys(parsed'.updated) \ {LegacyLine}
          /\ BodyOf(document') = BodyOf(parsed'.updated)]_vars

\* C39: with dry_run set, no step of either engine and no call of a
\* StateManager mutator changes a note (the records and the legacy fields of
\* V2, the lists of V1), no operation is invoked, and the counters
\* newly_processed and failed_processing stay 0.
C39_DryRunChangesNothing ==
    [][dry_run =>
          /\ fm' = fm
          /\ legacyFields' = legacyFields
          /\ lists' = lists
          /\ inv' = 0
          /\ nOk' = 0 /\ nFail' = 0]_vars

\* a dry run of an engine has ended over a vault with work to do, or a
\* mutator was called with dry_run on a note it would have changed
C39_Witness ==
    /\ dry_run
    /\ \/ engine = "V2" /\ pc = "done" /\ EligibleV2 # {}
       \/ engine = "V1" /\ pc = "done" /\ EligibleV1(lists) # {}
       \/ op[1] = "mark_processing_start"

\* the delay a step of process_note has taken
Slept == elapsed' - elapsed
\* a cap that is fixed does not depend on retry_attempts: it is at least the
\* largest delay of the calls with fewer than MaxAttempts attempts, and that
\* least value is the one the delays are compared with
BackoffCap == BackoffDelay(MaxAttempts - 3)

\* C40: between consecutive failed attempts of ProcessorRegistry.process_note
\* the delay before attempt k + 1 is 2^(k - 1) seconds (1, 2, 4, ... before
\* attempts 2, 3, 4, ...), after the final attempt no delay is taken, and no
\* delay exceeds a cap that is the same for every retry_attempts.
C40_BackoffSchedule ==
    [][engine = "V2" /\ pc = "wait" =>
          /\ attempt' < budget => Slept = BackoffDelay(attempt' - 1)
          /\ attempt' >= budget => Slept = 0
          /\ Slept <= BackoffCap]_vars

====
